---- MODULE Spec2Model ----
(***************************************************************************)
(* Quotient filter: the fingerprint engine quotient_filter_fp              *)
(* (src/src/quotient_filter_fp.cpp, include/quofil/quotient_filter_fp.hpp) *)
(* and the keyed wrapper quotient_filter                                   *)
(* (include/quofil/quotient_filter.hpp).                                   *)
(*                                                                         *)
(* An engine is a record with the fields of the class.  The three flag     *)
(* vectors are functions on 0..num_slots-1.  The remainder storage `data`  *)
(* is a function on 0..required_blocks-1; a block (one value_type word of  *)
(* bits_per_block bits) is the set of the bit positions that are 1.        *)
(***************************************************************************)
EXTENDS Integers, Sequences, FiniteSets

\* ------------------------------------------------------------------ bounds

\* Engines of SpecFE are built with q in 0..MaxQ and r in 1..MaxR.
MaxQ == 2
MaxR == 2
\* Template parameter Bits of the wrapper (fingerprint width F_max).
hash_bits == 3
\* Largest argument given to reserve / regenerate / the constructor.
MaxCount == 5

\* Engines of SpecRS are built with q = StorageQ and r in 2..StorageMaxR:
\* 32 slots of 3 bits, where slot 21 lies across the first two blocks.
StorageQ == 5
StorageMaxR == 3

\* ------------------------------------------------------------------ words

\* std::numeric_limits<value_type>::digits, value_type = std::size_t.
bits_per_block == 64

Pow2(n) == 2 ^ n

Min(a, b) == IF a < b THEN a ELSE b
Max(a, b) == IF a > b THEN a ELSE b

\* The word whose 1 bits are the positions in S (all below 31 here).
RECURSIVE WordOf(_)
WordOf(S) ==
  IF S = {} THEN 0
  ELSE LET b == CHOOSE x \in S : TRUE IN Pow2(b) + WordOf(S \ {b})

\* The positions of the 1 bits among the low n bits of v.
BitsOf(v, n) == {i \in 0..(n - 1) : (v \div Pow2(i)) % 2 = 1}

ceil_div(x, y) == (x \div y) + (IF x % y = 0 THEN 0 ELSE 1)

\* ~(~0 << num_bits), as a number.
low_mask(num_bits) == Pow2(num_bits) - 1

\* x & m for a mask m = 2^k - 1.
AndMask(x, m) == x % (m + 1)

\* ------------------------------------------------------------------ engine

\* A default engine whose num_slots is 1 << q_bits, as in the other
\* constructor, over vectors that are empty.
default_filter_one_slot ==
  [q_bits |-> 0, r_bits |-> 0, num_slots |-> 1, num_elements |-> 0,
   quotient_mask |-> 0, remainder_mask |-> 0,
   is_occupied |-> [i \in {} |-> FALSE],
   is_continuation |-> [i \in {} |-> FALSE],
   is_shifted |-> [i \in {} |-> FALSE],
   data |-> [b \in {} |-> {}]]

\* quotient_filter_fp() = default: every member zero, every vector empty.
default_filter ==
  [q_bits |-> 0, r_bits |-> 0, num_slots |-> 0, num_elements |-> 0,
   quotient_mask |-> 0, remainder_mask |-> 0,
   is_occupied |-> [i \in {} |-> FALSE],
   is_continuation |-> [i \in {} |-> FALSE],
   is_shifted |-> [i \in {} |-> FALSE],
   data |-> [b \in {} |-> {}]]

\* quotient_filter_fp(q, r) that takes the quotient mask for the number
\* of slots.
new_filter_mask_slots(q, r) ==
  [q_bits |-> q, r_bits |-> r, num_slots |-> low_mask(q), num_elements |-> 0,
   quotient_mask |-> low_mask(q), remainder_mask |-> low_mask(r),
   is_occupied |-> [i \in 0..(Pow2(q) - 1) |-> FALSE],
   is_continuation |-> [i \in 0..(Pow2(q) - 1) |-> FALSE],
   is_shifted |-> [i \in 0..(Pow2(q) - 1) |-> FALSE],
   data |-> [b \in 0..(ceil_div(r * Pow2(q), bits_per_block) - 1) |-> {}]]

\* quotient_filter_fp(q, r), r >= 1.
new_filter(q, r) ==
  [q_bits |-> q, r_bits |-> r, num_slots |-> Pow2(q), num_elements |-> 0,
   quotient_mask |-> low_mask(q), remainder_mask |-> low_mask(r),
   is_occupied |-> [i \in 0..(Pow2(q) - 1) |-> FALSE],
   is_continuation |-> [i \in 0..(Pow2(q) - 1) |-> FALSE],
   is_shifted |-> [i \in 0..(Pow2(q) - 1) |-> FALSE],
   data |-> [b \in 0..(ceil_div(r * Pow2(q), bits_per_block) - 1) |-> {}]]

\* quotient_filter_fp(q, r) for any r. assert(r != 0) aborts the program
\* in a build with assertions; a build with NDEBUG goes on and builds an
\* engine without remainder storage.
construct(q, r, ndebug) ==
  IF r = 0 /\ ~ndebug
  THEN [filter |-> default_filter, ret |-> "abort"]
  ELSE [filter |-> new_filter(q, r), ret |-> "none"]

size(f) == f.num_elements
capacity(f) == f.num_slots
empty(f) == f.num_elements = 0
\* full() that never says so.
never_full(f) == FALSE

full(f) == size(f) = capacity(f)

is_empty_slot(f, pos) ==
  ~f.is_occupied[pos] /\ ~f.is_continuation[pos] /\ ~f.is_shifted[pos]

get_remainder(f, pos) ==
  LET num_bit == f.r_bits * pos
      block == num_bit \div bits_per_block
      offset == num_bit % bits_per_block
      bits_to_read == Min(f.r_bits, bits_per_block - offset)
      pending_bits == f.r_bits - bits_to_read
      ans == {i \in 0..(bits_to_read - 1) : (offset + i) \in f.data[block]}
      next == IF pending_bits > 0
              THEN {i \in 0..(pending_bits - 1) : i \in f.data[block + 1]}
              ELSE {}
  IN WordOf(ans \cup {i + bits_to_read : i \in next})

\* set_remainder that writes to data[block] only.
set_remainder_one_block(f, pos, value) ==
  LET num_bit == f.r_bits * pos
      block == num_bit \div bits_per_block
      offset == num_bit % bits_per_block
      bits_to_write == Min(f.r_bits, bits_per_block - offset)
      vbits == BitsOf(value, f.r_bits)
  IN [f.data EXCEPT ![block] =
        (@ \ {offset + i : i \in 0..(bits_to_write - 1)})
        \cup {offset + i : i \in {j \in vbits : offset + j < bits_per_block}}]

\* The storage after set_remainder(pos, value); value < 2^r_bits.
set_remainder(f, pos, value) ==
  LET num_bit == f.r_bits * pos
      block == num_bit \div bits_per_block
      offset == num_bit % bits_per_block
      bits_to_write == Min(f.r_bits, bits_per_block - offset)
      pending_bits == f.r_bits - bits_to_write
      vbits == BitsOf(value, f.r_bits)
      first == (f.data[block] \ {offset + i : i \in 0..(bits_to_write - 1)})
               \cup {offset + i : i \in {j \in vbits : offset + j < bits_per_block}}
      d1 == [f.data EXCEPT ![block] = first]
  IN IF pending_bits > 0
     THEN [d1 EXCEPT ![block + 1] =
             (d1[block + 1] \ (0..(pending_bits - 1)))
             \cup {i - bits_to_write : i \in {j \in vbits : j >= bits_to_write}}]
     ELSE d1

incr_pos(f, pos) == AndMask(pos + 1, f.quotient_mask)
decr_pos(f, pos) == AndMask(pos - 1, f.quotient_mask)

extract_quotient(f, fp) == fp \div Pow2(f.r_bits)
extract_remainder(f, fp) == AndMask(fp, f.remainder_mask)

\* The assertion of extract_quotient: the quotient is the index of a slot.
\* The quotient is fp >> r_bits, never masked, so that a fingerprint of
\* more than q_bits + r_bits bits indexes the flag vectors outside their
\* size, which is undefined behaviour.
quotient_in_range(f, fp) == extract_quotient(f, fp) <= f.quotient_mask

\* The blocks get_remainder(pos) reads and set_remainder(pos, value) writes.
blocks_of(f, pos) ==
  LET num_bit == f.r_bits * pos
      block == num_bit \div bits_per_block
      offset == num_bit % bits_per_block
      pending_bits == f.r_bits - Min(f.r_bits, bits_per_block - offset)
  IN IF pending_bits > 0 THEN {block, block + 1} ELSE {block}

\* get_remainder(pos) and set_remainder(pos, value) read and write
\* data[block], and data[block + 1] when the remainder goes over the end
\* of the block: the blocks exist. An engine built with r = 0 has no
\* block.
remainder_in_range(f, pos) == blocks_of(f, pos) \subseteq DOMAIN f.data

\* insert(fp) past its full() check reads or writes the remainder of the
\* canonical slot.
insert_storage_defined(f, fp) ==
  full(f) \/ remainder_in_range(f, extract_quotient(f, fp))

\* find(fp) (and count(fp), erase(fp), which start with it) returns before
\* it extracts the quotient when the filter is empty.
find_defined(f, fp) == empty(f) \/ quotient_in_range(f, fp)

\* insert(fp) throws before it extracts the quotient when the filter is
\* full.
insert_defined(f, fp) == full(f) \/ quotient_in_range(f, fp)

RECURSIVE find_next_occupied(_, _)
find_next_occupied(f, pos) ==
  LET p == incr_pos(f, pos)
  IN IF f.is_occupied[p] THEN p ELSE find_next_occupied(f, p)

\* find_next_run_quotient that takes the next slot, occupied or not.
find_next_run_quotient_next_slot(f, pos) == pos + 1

RECURSIVE find_next_run_quotient(_, _)
find_next_run_quotient(f, pos) ==
  LET p == pos + 1
  IN IF p # f.num_slots /\ ~f.is_occupied[p]
     THEN find_next_run_quotient(f, p)
     ELSE p

\* find_run_start, first loop: walk left to the start of the cluster.
RECURSIVE cluster_start(_, _)
cluster_start(f, pos) ==
  LET p == decr_pos(f, pos)
  IN IF f.is_shifted[p] THEN cluster_start(f, p) ELSE p

\* find_run_start's inner loop that steps over one slot, not over a run.
next_run_one_slot(f, pos) == incr_pos(f, pos)

\* find_run_start, inner loop: the first slot of the next run.
RECURSIVE next_run(_, _)
next_run(f, pos) ==
  LET p == incr_pos(f, pos)
  IN IF f.is_continuation[p] THEN next_run(f, p) ELSE p

\* find_run_start, second loop: skip runs until the run of canonical_pos.
RECURSIVE skip_runs(_, _, _, _)
skip_runs(f, pos, quotient_pos, canonical_pos) ==
  IF quotient_pos # canonical_pos
  THEN skip_runs(f, next_run(f, pos), find_next_occupied(f, quotient_pos),
                 canonical_pos)
  ELSE pos

\* find_run_start that takes every run to be in its canonical slot.
find_run_start_unshifted(f, canonical_pos) == canonical_pos

find_run_start(f, canonical_pos) ==
  IF ~f.is_shifted[canonical_pos]
  THEN canonical_pos
  ELSE LET start == cluster_start(f, canonical_pos)
       IN skip_runs(f, start, start, canonical_pos)

\* ---------------------------------------------------------------- iterator

\* iterator(filter, pos, canonical_pos); "this" is the engine at hand.
iterator(pos, canonical_pos) ==
  [filter |-> "this", pos |-> pos, canonical_pos |-> canonical_pos]

\* end(): iterator(), the members' default values.
end == [filter |-> "nullptr", pos |-> 0, canonical_pos |-> 0]

\* iterator::equal.
equal(a, b) == a.pos = b.pos /\ a.filter = b.filter

\* iterator::dereference.
dereference(f, it) ==
  it.canonical_pos * Pow2(f.r_bits) + get_remainder(f, it.pos)

\* The search loop of find that stops at the first remainder that is not
\* less than the one it looks for.
RECURSIVE find_in_run_not_less(_, _, _, _)
find_in_run_not_less(f, pos, fp_remainder, canonical_pos) ==
  LET remainder == get_remainder(f, pos)
      p == incr_pos(f, pos)
  IN IF remainder >= fp_remainder THEN iterator(pos, canonical_pos)
     ELSE IF f.is_continuation[p]
          THEN find_in_run_not_less(f, p, fp_remainder, canonical_pos)
          ELSE end

\* The search loop of find over the sorted run.
RECURSIVE find_in_run(_, _, _, _)
find_in_run(f, pos, fp_remainder, canonical_pos) ==
  LET remainder == get_remainder(f, pos)
      p == incr_pos(f, pos)
  IN IF remainder = fp_remainder THEN iterator(pos, canonical_pos)
     ELSE IF remainder > fp_remainder THEN end
     ELSE IF f.is_continuation[p]
          THEN find_in_run(f, p, fp_remainder, canonical_pos)
          ELSE end

find(f, fp) ==
  IF empty(f) THEN end
  ELSE LET canonical_pos == extract_quotient(f, fp)
       IN IF ~f.is_occupied[canonical_pos] THEN end
          ELSE find_in_run(f, find_run_start(f, canonical_pos),
                           extract_remainder(f, fp), canonical_pos)

count(f, fp) == IF equal(find(f, fp), end) THEN 0 ELSE 1

\* -------------------------------------------------------------- insertion

\* insert_into that leaves is_shifted as it finds it.
RECURSIVE insert_into_unmarked(_, _, _, _)
insert_into_unmarked(f, pos, remainder, continuation) ==
  LET found_empty_slot == is_empty_slot(f, pos)
      g == [f EXCEPT !.is_continuation[pos] = continuation,
                     !.data = set_remainder(f, pos, remainder)]
  IN IF found_empty_slot
     THEN g
     ELSE insert_into_unmarked(g, incr_pos(f, pos), get_remainder(f, pos),
                               f.is_continuation[pos])

RECURSIVE insert_into(_, _, _, _)
insert_into(f, pos, remainder, continuation) ==
  LET found_empty_slot == is_empty_slot(f, pos)
      g == [f EXCEPT !.is_continuation[pos] = continuation,
                     !.data = set_remainder(f, pos, remainder),
                     !.is_shifted[pos] = TRUE]
  IN IF found_empty_slot THEN g
     ELSE insert_into(g, incr_pos(f, pos), get_remainder(f, pos),
                      f.is_continuation[pos])

\* The search loop of insert without its test for an equal remainder.
RECURSIVE insert_search_no_equal(_, _, _)
insert_search_no_equal(f, pos, fp_remainder) ==
  LET remainder == get_remainder(f, pos)
      p == incr_pos(f, pos)
  IN IF remainder > fp_remainder THEN [dup |-> FALSE, pos |-> pos]
     ELSE IF f.is_continuation[p]
          THEN insert_search_no_equal(f, p, fp_remainder)
          ELSE [dup |-> FALSE, pos |-> p]

\* The search loop of insert that puts a new remainder after the run's
\* last one.
RECURSIVE insert_search_appends(_, _, _)
insert_search_appends(f, pos, fp_remainder) ==
  LET remainder == get_remainder(f, pos)
      p == incr_pos(f, pos)
  IN IF remainder = fp_remainder THEN [dup |-> TRUE, pos |-> pos]
     ELSE IF f.is_continuation[p]
          THEN insert_search_appends(f, p, fp_remainder)
          ELSE [dup |-> FALSE, pos |-> p]

\* The search loop of insert: [dup |-> the remainder is stored at pos]
\* or the position where it belongs.
RECURSIVE insert_search(_, _, _)
insert_search(f, pos, fp_remainder) ==
  LET remainder == get_remainder(f, pos)
      p == incr_pos(f, pos)
  IN IF remainder = fp_remainder THEN [dup |-> TRUE, pos |-> pos]
     ELSE IF remainder > fp_remainder THEN [dup |-> FALSE, pos |-> pos]
     ELSE IF f.is_continuation[p] THEN insert_search(f, p, fp_remainder)
     ELSE [dup |-> FALSE, pos |-> p]

\* The end of insert that clears is_shifted of the canonical slot wherever
\* the remainder goes.
insert_at_clears_canonical(f, pos, run_start, canonical_pos, fp_remainder, run_was_empty) ==
  LET f2 == IF ~run_was_empty /\ pos = run_start
            THEN [f EXCEPT !.is_continuation[pos] = TRUE]
            ELSE f
      f3 == insert_into(f2, pos, fp_remainder, pos # run_start)
  IN [filter |-> [f3 EXCEPT !.is_shifted[canonical_pos] = FALSE,
                            !.num_elements = @ + 1],
      it |-> iterator(pos, canonical_pos),
      inserted |-> TRUE, threw |-> FALSE]

\* The end of insert: the remainder goes into pos, the rest of the
\* cluster moves right.
insert_at(f, pos, run_start, canonical_pos, fp_remainder, run_was_empty) ==
  LET f2 == IF ~run_was_empty /\ pos = run_start
            THEN [f EXCEPT !.is_continuation[pos] = TRUE]
            ELSE f
      f3 == insert_into(f2, pos, fp_remainder, pos # run_start)
      f4 == IF pos = canonical_pos
            THEN [f3 EXCEPT !.is_shifted[pos] = FALSE]
            ELSE f3
  IN [filter |-> [f4 EXCEPT !.num_elements = @ + 1],
      it |-> iterator(pos, canonical_pos),
      inserted |-> TRUE, threw |-> FALSE]

\* insert that answers a duplicate with an iterator to the start of its
\* run.
insert_found_at_run_start(f, s, run_start, canonical_pos, fp_remainder, run_was_empty) ==
  IF s.dup
  THEN [filter |-> f, it |-> iterator(run_start, canonical_pos),
        inserted |-> FALSE, threw |-> FALSE]
  ELSE insert_at(f, s.pos, run_start, canonical_pos, fp_remainder,
                 run_was_empty)

\* insert that counts a duplicate as an element.
insert_found_counts_duplicate(f, s, run_start, canonical_pos, fp_remainder, run_was_empty) ==
  IF s.dup
  THEN [filter |-> [f EXCEPT !.num_elements = @ + 1],
        it |-> iterator(s.pos, canonical_pos),
        inserted |-> FALSE, threw |-> FALSE]
  ELSE insert_at(f, s.pos, run_start, canonical_pos, fp_remainder,
                 run_was_empty)

\* insert once the search loop has given s = [dup, pos].
insert_found(f, s, run_start, canonical_pos, fp_remainder, run_was_empty) ==
  IF s.dup
  THEN [filter |-> f, it |-> iterator(s.pos, canonical_pos),
        inserted |-> FALSE, threw |-> FALSE]
  ELSE insert_at(f, s.pos, run_start, canonical_pos, fp_remainder,
                 run_was_empty)

\* insert from run_start = find_run_start(canonical_pos) on.
insert_in_run(f, run_start, canonical_pos, fp_remainder, run_was_empty) ==
  insert_found(f,
               IF run_was_empty
               THEN [dup |-> FALSE, pos |-> run_start]
               ELSE insert_search(f, run_start, fp_remainder),
               run_start, canonical_pos, fp_remainder, run_was_empty)

\* insert into a slot that is not empty, is_occupied[canonical_pos]
\* exchanged for true already.
insert_in_cluster(f, canonical_pos, fp_remainder, run_was_empty) ==
  insert_in_run(f, find_run_start(f, canonical_pos), canonical_pos,
                fp_remainder, run_was_empty)

\* insert(fp) past the full() check: the engine afterwards and the
\* returned pair.
insert_not_full(f, fp) ==
  IF is_empty_slot(f, extract_quotient(f, fp))
  THEN [filter |-> [f EXCEPT !.is_occupied[extract_quotient(f, fp)] = TRUE,
                             !.data = set_remainder(f, extract_quotient(f, fp),
                                                    extract_remainder(f, fp)),
                             !.num_elements = @ + 1],
        it |-> iterator(extract_quotient(f, fp), extract_quotient(f, fp)),
        inserted |-> TRUE, threw |-> FALSE]
  ELSE insert_in_cluster([f EXCEPT !.is_occupied[extract_quotient(f, fp)]
                                     = TRUE],
                         extract_quotient(f, fp), extract_remainder(f, fp),
                         ~f.is_occupied[extract_quotient(f, fp)])

\* insert that marks the quotient occupied before it tests full().
insert_marks_first(f, fp) ==
  IF full(f)
  THEN [filter |-> IF f.num_slots = 0 THEN f
                   ELSE [f EXCEPT !.is_occupied[extract_quotient(f, fp)]
                                    = TRUE],
        it |-> end, inserted |-> FALSE, threw |-> TRUE]
  ELSE insert_not_full(f, fp)

\* insert that looks the fingerprint up before it tests full().
insert_finds_first(f, fp) ==
  LET it == find(f, fp)
  IN IF ~equal(it, end)
     THEN [filter |-> f, it |-> it, inserted |-> FALSE, threw |-> FALSE]
     ELSE IF full(f)
     THEN [filter |-> f, it |-> end, inserted |-> FALSE, threw |-> TRUE]
     ELSE insert_not_full(f, fp)

\* insert(fp): throws filter_is_full when full, whatever fp is.
insert(f, fp) ==
  IF full(f)
  THEN [filter |-> f, it |-> end, inserted |-> FALSE, threw |-> TRUE]
  ELSE insert_not_full(f, fp)

\* --------------------------------------------------------------- deletion

\* clear() that gives the storage back: *this = quotient_filter_fp().
clear_releases(f) == default_filter

\* clear() that leaves the is_shifted flags as they are.
clear_keeps_shifted(f) ==
  [f EXCEPT !.is_occupied = [i \in DOMAIN f.is_occupied |-> FALSE],
            !.is_continuation = [i \in DOMAIN f.is_continuation |-> FALSE],
            !.num_elements = 0]

\* clear(): the flags are reset, the remainders stay in data.
clear(f) ==
  [f EXCEPT !.is_occupied = [i \in DOMAIN f.is_occupied |-> FALSE],
            !.is_continuation = [i \in DOMAIN f.is_continuation |-> FALSE],
            !.is_shifted = [i \in DOMAIN f.is_shifted |-> FALSE],
            !.num_elements = 0]

\* The loop of remove_entry that moves the rest of the cluster one slot
\* left: the engine and the last slot of the cluster.
\* The loop of remove_entry without its check for a run that comes back to
\* its canonical slot.
RECURSIVE move_left_keeps_shifted(_, _, _)
move_left_keeps_shifted(f, pos, quotient_pos) ==
  LET next_pos == incr_pos(f, pos)
  IN IF ~f.is_shifted[next_pos]
     THEN [filter |-> f, pos |-> pos]
     ELSE move_left_keeps_shifted(
            [f EXCEPT !.data = set_remainder(f, pos, get_remainder(f, next_pos)),
                      !.is_continuation[pos] = f.is_continuation[next_pos]],
            next_pos, quotient_pos)

RECURSIVE move_left(_, _, _)
move_left(f, pos, quotient_pos) ==
  LET next_pos == incr_pos(f, pos)
  IN IF ~f.is_shifted[next_pos]
     THEN [filter |-> f, pos |-> pos]
     ELSE
       LET f1 == [f EXCEPT !.data = set_remainder(f, pos,
                                                  get_remainder(f, next_pos)),
                           !.is_continuation[pos] = f.is_continuation[next_pos]]
           new_run == ~f1.is_continuation[pos]
           qp == IF new_run THEN find_next_occupied(f1, quotient_pos)
                 ELSE quotient_pos
           f2 == IF new_run /\ qp = pos
                 THEN [f1 EXCEPT !.is_shifted[pos] = FALSE]
                 ELSE f1
       IN move_left(f2, next_pos, qp)

\* remove_entry that clears is_occupied whenever the head of a run goes.
remove_entry_clears_occupied(f, remove_pos, canonical_pos) ==
  LET was_head == ~f.is_continuation[remove_pos]
      m == move_left(f, remove_pos, canonical_pos)
      f1 == [m.filter EXCEPT !.is_shifted[m.pos] = FALSE,
                             !.is_continuation[m.pos] = FALSE]
  IN IF was_head
     THEN [f1 EXCEPT !.is_continuation[remove_pos] = FALSE,
                     !.is_occupied[canonical_pos] = FALSE]
     ELSE f1

\* remove_entry that never clears is_occupied.
remove_entry_keeps_occupied(f, remove_pos, canonical_pos) ==
  LET was_head == ~f.is_continuation[remove_pos]
      m == move_left(f, remove_pos, canonical_pos)
      f1 == [m.filter EXCEPT !.is_shifted[m.pos] = FALSE,
                             !.is_continuation[m.pos] = FALSE]
  IN IF was_head /\ f1.is_continuation[remove_pos]
     THEN [f1 EXCEPT !.is_continuation[remove_pos] = FALSE]
     ELSE f1

remove_entry(f, remove_pos, canonical_pos) ==
  LET was_head == ~f.is_continuation[remove_pos]
      m == move_left(f, remove_pos, canonical_pos)
      f1 == [m.filter EXCEPT !.is_shifted[m.pos] = FALSE,
                             !.is_continuation[m.pos] = FALSE]
  IN IF was_head
     THEN IF f1.is_continuation[remove_pos]
          THEN [f1 EXCEPT !.is_continuation[remove_pos] = FALSE]
          ELSE [f1 EXCEPT !.is_occupied[canonical_pos] = FALSE]
     ELSE f1

\* erase(const_iterator).
erase_at(f, it) ==
  [remove_entry(f, it.pos, it.canonical_pos) EXCEPT !.num_elements = @ - 1]

\* erase(value_type): the engine afterwards and the returned count.
erase_found(f, it) ==
  IF equal(it, end)
  THEN [filter |-> f, ret |-> 0]
  ELSE [filter |-> erase_at(f, it), ret |-> 1]

erase(f, fp) == erase_found(f, find(f, fp))

\* -------------------------------------------------------------- traversal

begin(f) ==
  IF empty(f) THEN end
  ELSE LET canonical_pos == IF f.is_occupied[0] THEN 0
                            ELSE find_next_occupied(f, 0)
       IN iterator(find_run_start(f, canonical_pos), canonical_pos)

\* iterator::increment.
increment(f, it) ==
  LET pos == incr_pos(f, it.pos)
  IN IF f.is_continuation[pos]
     THEN [it EXCEPT !.pos = pos]
     ELSE
       LET canonical_pos == find_next_run_quotient(f, it.canonical_pos)
       IN IF canonical_pos = f.num_slots
          THEN [it EXCEPT !.pos = canonical_pos,
                          !.canonical_pos = canonical_pos]
          ELSE IF f.is_shifted[pos]
          THEN [it EXCEPT !.pos = pos, !.canonical_pos = canonical_pos]
          ELSE IF ~f.is_occupied[pos]
          THEN [it EXCEPT !.pos = find_next_occupied(f, pos),
                          !.canonical_pos = canonical_pos]
          ELSE [it EXCEPT !.pos = pos, !.canonical_pos = canonical_pos]

\* operator++ applied n times.
RECURSIVE advance(_, _, _)
advance(f, it, n) ==
  IF n = 0 THEN it ELSE advance(f, increment(f, it), n - 1)

\* operator* reads the remainder of a slot that has storage. The iterator
\* that increment leaves at pos == num_slots is read as any other: its
\* bits are those behind the last slot's, in the last block if r_bits *
\* num_slots is not a multiple of the block size, and outside data
\* otherwise.
dereference_defined(f, it) == remainder_in_range(f, it.pos)

\* The two assertions of find_next_run_quotient hold.
find_next_run_quotient_asserts(f, pos) ==
  /\ pos < f.num_slots
  /\ f.is_occupied[pos]

\* The assertions of iterator::increment, and of the
\* find_next_run_quotient it calls, hold.
increment_asserts(f, it) ==
  LET pos == incr_pos(f, it.pos)
      selected == IF f.is_occupied[pos] THEN pos
                  ELSE find_next_occupied(f, pos)
  IN /\ it.pos <= f.num_slots
     /\ it.pos # f.num_slots
     /\ \/ f.is_continuation[pos]
        \/ /\ find_next_run_quotient_asserts(f, it.canonical_pos)
           /\ \/ find_next_run_quotient(f, it.canonical_pos) = f.num_slots
              \/ f.is_shifted[pos]
              \/ /\ ~f.is_occupied[pos] => is_empty_slot(f, pos)
                 /\ ~f.is_shifted[selected]
                 /\ ~f.is_continuation[selected]

\* What operator++ does to an iterator: it returns ("none"), or a build
\* with assertions aborts at one of the assertions of increment and
\* find_next_run_quotient. On the iterator that increment has left at
\* pos == num_slots that is "Can't increment end iterator". A build with
\* NDEBUG goes on: it wraps pos, returns if that slot is a continuation
\* and otherwise calls find_next_run_quotient(canonical_pos), which for
\* canonical_pos >= num_slots reads is_occupied behind its last element.
\* An engine without slots has no is_continuation to read.
increment_ret(f, it, ndebug) ==
  IF ~ndebug
  THEN IF increment_asserts(f, it) THEN "none" ELSE "abort"
  ELSE IF f.num_slots = 0 THEN "undefined"
  ELSE IF f.is_continuation[incr_pos(f, it.pos)] THEN "none"
  ELSE IF it.canonical_pos >= f.num_slots THEN "undefined"
  ELSE "none"

\* for (it = first; it != end(); ++it) with operator* in its body: the
\* values read so far are in values, and the loop goes on from it. It
\* stops when it == end(), that is pos == 0 and filter == nullptr, which
\* no iterator that increment has touched satisfies. ret is "none" when
\* the loop has stopped, "abort" or "undefined" when the next step does
\* that, and "fuel" when fuel steps were taken.
RECURSIVE traverse(_, _, _, _, _)
traverse(f, it, values, fuel, ndebug) ==
  IF equal(it, end) THEN [values |-> values, ret |-> "none"]
  ELSE IF fuel = 0 THEN [values |-> values, ret |-> "fuel"]
  ELSE IF ~dereference_defined(f, it)
  THEN [values |-> values, ret |-> "undefined"]
  ELSE IF increment_ret(f, it, ndebug) # "none"
  THEN [values |-> Append(values, dereference(f, it)),
        ret |-> increment_ret(f, it, ndebug)]
  ELSE traverse(f, increment(f, it), Append(values, dereference(f, it)),
                fuel - 1, ndebug)

\* The values a loop  for (it = first; it != end(); ++it)  dereferences,
\* in order, and how the loop ends; at most fuel steps.
range_from(f, it, fuel, ndebug) == traverse(f, it, <<>>, fuel, ndebug)

\* for (value : filter)
range(f, ndebug) == range_from(f, begin(f), 2 * f.num_slots + 2, ndebug)

\* ---------------------------------------------------------------- wrapper

(***************************************************************************)
(* The wrapper's float max_load_factor_ is a rational <<num, den>>.  The   *)
(* values that occur are 1/4, 1/2, 3/4 and 1, which are floats, and the    *)
(* lower clamp 0.01f: for the counts n and the powers of two N of this     *)
(* model float(n) / 0.01f is 100 n and 0.01f * N truncates to N div 100,   *)
(* as with 1/100.                                                          *)
(***************************************************************************)
default_max_load_factor == <<3, 4>>
min_max_load_factor == <<1, 100>>
max_max_load_factor == <<1, 1>>

Less(a, b) == a[1] * b[2] < b[1] * a[2]

\* static_cast<size_type>(std::ceil(n / ml))
ceil_over(n, ml) == ceil_div(n * ml[2], ml[1])

slot_count(f) == capacity(f)

max_size == Pow2(hash_bits - 1)

RECURSIVE calc_q_from(_, _)
calc_q_from(q_bits, slots) ==
  IF Pow2(q_bits) < slots THEN calc_q_from(q_bits + 1, slots) ELSE q_bits

calc_required_q(slots) == calc_q_from(0, slots)

max_allowed_size(f, ml) ==
  Min((ml[1] * slot_count(f)) \div ml[2], slot_count(f))

\* What temp.insert(hash_value) of regenerate's loop does when it does not
\* return: insert throws filter_is_full when temp is full; otherwise
\* extract_quotient asserts that the quotient is below temp's slot count,
\* and a build with NDEBUG goes on to index the flag vectors with it.
insert_ret(temp, hash_value, ndebug) ==
  IF full(temp) THEN "filter_is_full"
  ELSE IF quotient_in_range(temp, hash_value) THEN "none"
  ELSE IF ndebug THEN "undefined"
  ELSE "abort"

\* for (hash_value : filter) temp.insert(hash_value), over the values left:
\* temp afterwards and how the loop was left. An exception of insert
\* leaves the loop; temp is then a local of regenerate that is destroyed.
RECURSIVE insert_all(_, _, _)
insert_all(temp, values, ndebug) ==
  IF values = <<>> THEN [filter |-> temp, threw |-> "none"]
  ELSE IF insert_ret(temp, Head(values), ndebug) # "none"
  THEN [filter |-> temp, threw |-> insert_ret(temp, Head(values), ndebug)]
  ELSE insert_all(insert(temp, Head(values)).filter, Tail(values), ndebug)

\* regenerate from its range-for loop on: the loop reads the values that
\* the traversal of f gives (visited) and inserts them into temp one by
\* one. The loop is left by what insert does with one of the values or,
\* after the last of them, by what the traversal does next. Only when it
\* ends normally is temp moved into the wrapper's filter.
copied(f, visited, res) ==
  IF res.threw # "none" THEN [filter |-> f, threw |-> res.threw]
  ELSE IF visited.ret # "none" THEN [filter |-> f, threw |-> visited.ret]
  ELSE [filter |-> res.filter, threw |-> "none"]

copy_into(temp, f, visited, ndebug) ==
  copied(f, visited, insert_all(temp, visited.values, ndebug))

\* regenerate(slot_count): the engine afterwards and the exception thrown.
\* r_bits is a size_type: a negative number here stands for the wrapped
\* value 2^64 + r_bits, with which the engine's constructor asks for
\* about 2^58 blocks and the allocation fails.
regenerate(f, ml, slots, ndebug) ==
  LET min_slot_count == ceil_over(size(f), ml)
      new_slot_count == Max(min_slot_count, slots)
      q_bits == calc_required_q(new_slot_count)
      r_bits == hash_bits - q_bits
  IN IF new_slot_count = 0
     THEN [filter |-> default_filter, threw |-> "none"]
     ELSE IF q_bits = f.q_bits /\ r_bits = f.r_bits
     THEN [filter |-> f, threw |-> "none"]
     ELSE IF r_bits = 0
     THEN [filter |-> f, threw |-> "length_error"]
     ELSE IF r_bits < 0
     THEN [filter |-> f, threw |-> "bad_alloc"]
     ELSE copy_into(new_filter(q_bits, r_bits), f, range(f, ndebug), ndebug)

reserve(f, ml, n, ndebug) ==
  regenerate(f, ml, ceil_over(n, ml), ndebug)

\* return filter.insert(hash_value), the last line of the wrapper's
\* insert, with res what the engine's insert gives.
engine_insert(res) ==
  [filter |-> res.filter, it |-> res.it, inserted |-> res.inserted,
   threw |-> IF res.threw THEN "filter_is_full" ELSE "none"]

\* The wrapper's insert after reserve(size() + 1) has given grown.
insert_reserved(f, grown, hash_value) ==
  IF grown.threw # "none"
  THEN [filter |-> f, it |-> end, inserted |-> FALSE, threw |-> grown.threw]
  ELSE engine_insert(insert(grown.filter, hash_value))

\* The wrapper's insert at size() == max_allowed_size(), with
\* it = filter.find(hash_value).
insert_at_capacity(f, ml, hash_value, it, ndebug) ==
  IF ~equal(it, end)
  THEN [filter |-> f, it |-> it, inserted |-> FALSE, threw |-> "none"]
  ELSE insert_reserved(f, reserve(f, ml, size(f) + 1, ndebug), hash_value)

\* insert that reserves before it looks the hash value up.
wrapper_insert_reserve_first(f, ml, hash_value, ndebug) ==
  IF size(f) = max_allowed_size(f, ml)
  THEN insert_reserved(f, reserve(f, ml, size(f) + 1, ndebug), hash_value)
  ELSE engine_insert(insert(f, hash_value))

\* quotient_filter::insert with hash_value = hash_fn(elem).
wrapper_insert(f, ml, hash_value, ndebug) ==
  IF size(f) = max_allowed_size(f, ml)
  THEN insert_at_capacity(f, ml, hash_value, find(f, hash_value), ndebug)
  ELSE engine_insert(insert(f, hash_value))

\* filter.insert(hash_value) after reserve(size() + 1) has returned res.
insert_defined_after(res, hash_value) ==
  res.threw # "none" \/ insert_defined(res.filter, hash_value)

\* The behaviour of quotient_filter::insert is defined: every engine call
\* it makes with hash_value is. The hash value goes to the engine as the
\* hash function returned it.
wrapper_insert_defined(f, ml, hash_value, ndebug) ==
  IF size(f) = max_allowed_size(f, ml)
  THEN /\ find_defined(f, hash_value)
       /\ \/ ~equal(find(f, hash_value), end)
          \/ insert_defined_after(reserve(f, ml, size(f) + 1, ndebug),
                                  hash_value)
  ELSE insert_defined(f, hash_value)

\* std::min(std::max(ml, 0.01f), 1.0f)
clamp(ml) ==
  IF Less(ml, min_max_load_factor) THEN min_max_load_factor
  ELSE IF Less(max_max_load_factor, ml) THEN max_max_load_factor
  ELSE ml

\* max_load_factor(ml) that stores the clamped value and no more.
set_max_load_factor_no_regenerate(f, ml, ndebug) ==
  [filter |-> f, max_load_factor_ |-> clamp(ml), threw |-> "none"]

\* max_load_factor(ml) after regenerate(0) has given res.
regenerated(res, ml) ==
  [filter |-> res.filter, max_load_factor_ |-> ml,
   threw |-> IF res.threw \in {"none", "abort", "undefined"} THEN res.threw
             ELSE "terminate"]

\* max_load_factor(ml), noexcept: an exception of regenerate ends the
\* program (std::terminate) after the member was assigned.
set_max_load_factor(f, ml, ndebug) ==
  IF size(f) > max_allowed_size(f, clamp(ml))
  THEN regenerated(regenerate(f, clamp(ml), 0, ndebug), clamp(ml))
  ELSE [filter |-> f, max_load_factor_ |-> clamp(ml), threw |-> "none"]

\* A quotient_filter object: its three members.
wrapper(f, h, ml) == [filter |-> f, hash_fn |-> h, max_load_factor_ |-> ml]

\* std::equal(first1, last1, first2) with last1 = lhs.end(): the loop
\* for (; first1 != last1; ++first1, ++first2) if (!(*first1 == *first2))
\* return false;  over the engines lf and rf. Like every loop that waits
\* for end() it goes on behind the last element of a non-empty lf: "true"
\* and "false" are what it returns, "abort" and "undefined" what happens
\* when it does not return.
RECURSIVE std_equal(_, _, _, _, _, _)
std_equal(lf, rf, first1, first2, fuel, ndebug) ==
  IF equal(first1, end) THEN "true"
  ELSE IF fuel = 0 THEN "fuel"
  ELSE IF first2.filter = "nullptr" THEN "undefined"
  ELSE IF ~dereference_defined(lf, first1) \/ ~dereference_defined(rf, first2)
  THEN "undefined"
  ELSE IF dereference(lf, first1) # dereference(rf, first2) THEN "false"
  ELSE IF increment_ret(lf, first1, ndebug) # "none"
  THEN increment_ret(lf, first1, ndebug)
  ELSE IF increment_ret(rf, first2, ndebug) # "none"
  THEN increment_ret(rf, first2, ndebug)
  ELSE std_equal(lf, rf, increment(lf, first1), increment(rf, first2),
                 fuel - 1, ndebug)

\* operator==(lhs, rhs): "true" or "false" when it returns.
operator_eq(lhs, rhs, ndebug) ==
  IF size(lhs.filter) # size(rhs.filter) THEN "false"
  ELSE std_equal(lhs.filter, rhs.filter, begin(lhs.filter),
                 begin(rhs.filter), 2 * slot_count(lhs.filter) + 2, ndebug)

\* !(lhs == rhs)
negated(ret) ==
  IF ret = "true" THEN "false" ELSE IF ret = "false" THEN "true" ELSE ret

\* operator!=(lhs, rhs)
operator_ne(lhs, rhs, ndebug) == negated(operator_eq(lhs, rhs, ndebug))

\* ------------------------------------------------------------------ state

VARIABLES
  filter,            \* the engine (the wrapper's member `filter`)
  max_load_factor_,  \* the wrapper's member, a rational <<num, den>>
  hash_fn,           \* the wrapper's hash function, key -> hash value
  ref,               \* reference set of fingerprints (std::set of the tests)
  kept,              \* keys inserted and not since given to erase
  history,           \* the calls made since construction: "inserts" or
                     \* "inserts_erases" after a default construction,
                     \* otherwise "any"
  last               \* the monitor's record of the last call

vars == <<filter, max_load_factor_, hash_fn, ref, kept, history, last>>

\* All fingerprints that fit in q_bits + r_bits bits.
Fingerprints(f) == 0..(Pow2(f.q_bits + f.r_bits) - 1)

Bool(b) == IF b THEN "true" ELSE "false"

\* ------------------------------------------------- SpecFE: the engine alone

\* What the monitor keeps of a call: the operation, what it returned or
\* threw, whether its argument was in ref when the call was made, and
\* whether the call changed q_bits or r_bits.
Call(op, ret, had, resized) ==
  [op |-> op, ret |-> ret, had |-> had, resized |-> resized]

\* The program is running: it has not been terminated or aborted and no
\* call has had undefined behaviour, after which nothing is known about
\* its state.
Alive == last.ret \notin {"terminate", "abort", "undefined"}

FEInit ==
  /\ filter \in {default_filter}
                \cup {new_filter(q, r) : q \in 0..MaxQ, r \in 1..MaxR}
  /\ max_load_factor_ = default_max_load_factor
  /\ hash_fn = <<>>
  /\ ref = {}
  /\ kept = {}
  /\ history = "any"
  /\ last = Call("new", "none", FALSE, FALSE)

FEInsert(fp) ==
  \E res \in {IF insert_storage_defined(filter, fp)
               THEN insert(filter, fp)
               ELSE [filter |-> filter, it |-> end, inserted |-> FALSE,
                     threw |-> FALSE]} :
     /\ Alive
     /\ filter' = res.filter
     /\ ref' = IF res.threw \/ ~res.inserted THEN ref ELSE ref \cup {fp}
     /\ last' = Call("insert",
                     IF ~insert_storage_defined(filter, fp) THEN "undefined"
                     ELSE IF res.threw THEN "filter_is_full"
                     ELSE Bool(res.inserted),
                     fp \in ref, FALSE)
     /\ UNCHANGED <<max_load_factor_, hash_fn, kept, history>>

FEErase(fp) ==
  \E res \in {erase(filter, fp)} :
     /\ Alive
     /\ filter' = res.filter
     /\ ref' = ref \ {fp}
     /\ last' = Call("erase", IF res.ret = 1 THEN "1" ELSE "0",
                     fp \in ref, FALSE)
     /\ UNCHANGED <<max_load_factor_, hash_fn, kept, history>>

FEClear ==
  /\ Alive
  /\ filter' = clear(filter)
  /\ ref' = {}
  /\ last' = Call("clear", "none", FALSE, FALSE)
  /\ UNCHANGED <<max_load_factor_, hash_fn, kept, history>>

FEFind(fp) ==
  /\ Alive
  /\ last' = Call("find",
                  IF equal(find(filter, fp), end) THEN "end" ELSE "found",
                  fp \in ref, FALSE)
  /\ UNCHANGED <<filter, max_load_factor_, hash_fn, ref, kept, history>>

FECount(fp) ==
  /\ Alive
  /\ last' = Call("count", IF count(filter, fp) = 1 THEN "1" ELSE "0",
                  fp \in ref, FALSE)
  /\ UNCHANGED <<filter, max_load_factor_, hash_fn, ref, kept, history>>

FENext ==
  \/ \E fp \in Fingerprints(filter) : FEInsert(fp)
  \/ \E fp \in Fingerprints(filter) : FEErase(fp)
  \/ FEClear
  \/ \E fp \in Fingerprints(filter) : FEFind(fp)
  \/ \E fp \in Fingerprints(filter) : FECount(fp)

SpecFE == FEInit /\ [][FENext]_vars

\* ------------------------- SpecCT: the engine, constructed with any r

\* quotient_filter_fp(q, r) with r = 0 as well, in a build with assertions
\* and in one without.
CTInit ==
  /\ \E q \in 0..MaxQ, r \in 0..1, ndebug \in BOOLEAN :
       /\ filter = construct(q, r, ndebug).filter
       /\ last = Call("new", construct(q, r, ndebug).ret, FALSE, FALSE)
  /\ max_load_factor_ = default_max_load_factor
  /\ hash_fn = <<>>
  /\ ref = {}
  /\ kept = {}
  /\ history = "any"

SpecCT == CTInit /\ [][FENext]_vars

\* ------------------------------------------------- SpecKW: the wrapper

\* Arguments given to max_load_factor: below, inside and above [0.01, 1].
MlInputs == {<<0, 1>>, <<1, 4>>, <<1, 2>>, <<3, 4>>, <<1, 1>>, <<2, 1>>}

\* Hash functions: a 1:1 hash onto all fingerprints of hash_bits bits
\* (state_hash of the tests), and one under which pairs of keys collide.
HashFns ==
  {[k \in 0..(Pow2(hash_bits) - 1) |-> k],
   [k \in 0..5 |-> (k \div 2) * 3]}

Keys == DOMAIN hash_fn

\* A hash function whose values need more than hash_bits bits for some
\* keys, as std::hash<std::size_t> does for every hash_bits below 64.
WideHashFns == {[k \in 0..(Pow2(hash_bits) + 1) |-> k]}

\* The elements of a std::set<value_type>, in the order its iteration
\* gives them.
RECURSIVE Ascending(_)
Ascending(S) ==
  IF S = {} THEN <<>>
  ELSE LET m == CHOOSE x \in S : \A y \in S : x <= y
       IN <<m>> \o Ascending(S \ {m})

\* The other object of a swap: the slot counts it was constructed with,
\* the max load factors it was given, and the keys inserted into it.
SwapSlotCounts == {0, 2, 4}
SwapMls == {<<1, 2>>, <<1, 1>>}
SwapKeys == {1, 5}

\* insert(first, last) of the range constructor: insert(key) for every key
\* of the range, hashes being their hash values in the order of the range.
RECURSIVE insert_range(_, _, _, _)
insert_range(f, ml, hashes, ndebug) ==
  IF hashes = <<>> THEN [filter |-> f, threw |-> "none"]
  ELSE IF ~wrapper_insert_defined(f, ml, Head(hashes), ndebug)
  THEN [filter |-> f, threw |-> "undefined"]
  ELSE IF wrapper_insert(f, ml, Head(hashes), ndebug).threw # "none"
  THEN [filter |-> f,
        threw |-> wrapper_insert(f, ml, Head(hashes), ndebug).threw]
  ELSE insert_range(wrapper_insert(f, ml, Head(hashes), ndebug).filter, ml,
                    Tail(hashes), ndebug)

\* The object after quotient_filter other(slot_count, hash),
\* other.max_load_factor(ml) and other.insert(k) for the keys, in
\* ascending order; threw is "none" when every one of the calls returned,
\* and otherwise how the first that did not was left.
other_object(h, slots, ml, keys, ndebug) ==
  LET made == regenerate(default_filter, default_max_load_factor, slots,
                         ndebug)
      set == set_max_load_factor(made.filter, ml, ndebug)
      hashes == [i \in 1..Cardinality(keys) |-> h[Ascending(keys)[i]]]
      given == insert_range(set.filter, set.max_load_factor_, hashes,
                            ndebug)
  IN [filter |-> given.filter, hash_fn |-> h,
      max_load_factor_ |-> set.max_load_factor_, keys |-> keys,
      threw |-> IF made.threw # "none" THEN made.threw
                ELSE IF set.threw # "none" THEN set.threw
                ELSE given.threw]

\* The objects a running program has made with hash functions of H, in
\* either build.
OtherObjects(H) ==
  {other \in {other_object(h, n, ml, keys, ndebug) :
                h \in H, n \in SwapSlotCounts, ml \in SwapMls,
                keys \in SUBSET SwapKeys, ndebug \in BOOLEAN} :
     other.threw = "none"}

KWOthers == OtherObjects(HashFns)
KTOthers == OtherObjects(WideHashFns)

\* q_bits or r_bits of g differ from those of f.
Resized(f, g) == f.q_bits # g.q_bits \/ f.r_bits # g.r_bits

\* quotient_filter(slot_count, hash): the constructions that do not throw.
KWInit ==
  /\ hash_fn \in HashFns
  /\ max_load_factor_ = default_max_load_factor
  /\ \E n \in 0..MaxCount, ndebug \in BOOLEAN :
       LET res == regenerate(default_filter, default_max_load_factor, n,
                             ndebug)
       IN /\ res.threw = "none"
          /\ filter = res.filter
          /\ history = IF n = 0 THEN "inserts" ELSE "any"
  /\ ref = {}
  /\ kept = {}
  /\ last = Call("new", "none", FALSE, FALSE)

\* The outcome of a call whose behaviour is undefined: none that the model
\* picks. The run ends there, with the state as the call found it.
undefined_insert(f) ==
  [filter |-> f, it |-> end, inserted |-> FALSE, threw |-> "undefined"]

\* No number of erased elements: neither 0 nor 1.
undefined_erase(f) == [filter |-> f, ret |-> -1]

KWInsert(k, ndebug) ==
  \E res \in {IF wrapper_insert_defined(filter, max_load_factor_,
                                        hash_fn[k], ndebug)
               THEN wrapper_insert(filter, max_load_factor_, hash_fn[k],
                                   ndebug)
               ELSE undefined_insert(filter)} :
     /\ Alive
     /\ filter' = res.filter
     /\ ref' = IF res.threw = "none" THEN ref \cup {hash_fn[k]} ELSE ref
     /\ kept' = IF res.threw = "none" THEN kept \cup {k} ELSE kept
     /\ last' = Call("insert",
                     IF res.threw = "none" THEN Bool(res.inserted)
                     ELSE res.threw,
                     hash_fn[k] \in ref, Resized(filter, res.filter))
     /\ UNCHANGED <<max_load_factor_, hash_fn, history>>

KWErase(k) ==
  \E res \in {IF find_defined(filter, hash_fn[k])
               THEN erase(filter, hash_fn[k])
               ELSE undefined_erase(filter)} :
     /\ Alive
     /\ filter' = res.filter
     /\ ref' = ref \ {hash_fn[k]}
     /\ kept' = kept \ {k}
     /\ history' = IF history = "any" THEN "any" ELSE "inserts_erases"
     /\ last' = Call("erase",
                     IF res.ret = 1 THEN "1"
                     ELSE IF res.ret = 0 THEN "0" ELSE "undefined",
                     hash_fn[k] \in ref, FALSE)
     /\ UNCHANGED <<max_load_factor_, hash_fn>>

KWClear ==
  /\ Alive
  /\ filter' = clear(filter)
  /\ ref' = {}
  /\ kept' = {}
  /\ history' = "any"
  /\ last' = Call("clear", "none", FALSE, FALSE)
  /\ UNCHANGED <<max_load_factor_, hash_fn>>

KWReserve(n, ndebug) ==
  \E res \in {reserve(filter, max_load_factor_, n, ndebug)} :
     /\ Alive
     /\ filter' = res.filter
     /\ history' = "any"
     /\ last' = Call("reserve", res.threw, FALSE,
                     Resized(filter, res.filter))
     /\ UNCHANGED <<max_load_factor_, hash_fn, ref, kept>>

KWRegenerate(n, ndebug) ==
  \E res \in {regenerate(filter, max_load_factor_, n, ndebug)} :
     /\ Alive
     /\ filter' = res.filter
     /\ history' = "any"
     /\ last' = Call("regenerate", res.threw, FALSE,
                     Resized(filter, res.filter))
     /\ UNCHANGED <<max_load_factor_, hash_fn, ref, kept>>

KWMaxLoadFactor(ml, ndebug) ==
  \E res \in {set_max_load_factor(filter, ml, ndebug)} :
     /\ Alive
     /\ filter' = res.filter
     /\ max_load_factor_' = res.max_load_factor_
     /\ history' = "any"
     /\ last' = Call("max_load_factor", res.threw, FALSE,
                     Resized(filter, res.filter))
     /\ UNCHANGED <<hash_fn, ref, kept>>

KWFind(k) ==
  /\ Alive
  /\ last' = Call("find",
                  IF ~find_defined(filter, hash_fn[k]) THEN "undefined"
                  ELSE IF equal(find(filter, hash_fn[k]), end) THEN "end"
                  ELSE "found",
                  hash_fn[k] \in ref, FALSE)
  /\ UNCHANGED <<filter, max_load_factor_, hash_fn, ref, kept, history>>

KWCount(k) ==
  /\ Alive
  /\ last' = Call("count",
                  IF ~find_defined(filter, hash_fn[k]) THEN "undefined"
                  ELSE IF count(filter, hash_fn[k]) = 1 THEN "1" ELSE "0",
                  hash_fn[k] \in ref, FALSE)
  /\ UNCHANGED <<filter, max_load_factor_, hash_fn, ref, kept, history>>

\* swap(other), and the friend swap(lhs, rhs) that calls it: std::swap
\* exchanges the three members of the two objects. This object is
\* afterwards what the other was.
KWSwap(other) ==
  /\ Alive
  /\ filter' = other.filter
  /\ max_load_factor_' = other.max_load_factor_
  /\ hash_fn' = other.hash_fn
  /\ ref' = {other.hash_fn[k] : k \in other.keys}
  /\ kept' = other.keys
  /\ history' = "any"
  /\ last' = Call("swap", "none", FALSE, Resized(filter, other.filter))

KWNext ==
  \/ \E k \in Keys, ndebug \in BOOLEAN : KWInsert(k, ndebug)
  \/ \E k \in Keys : KWErase(k)
  \/ KWClear
  \/ \E n \in 0..MaxCount, ndebug \in BOOLEAN : KWReserve(n, ndebug)
  \/ \E n \in 0..MaxCount, ndebug \in BOOLEAN : KWRegenerate(n, ndebug)
  \/ \E ml \in MlInputs, ndebug \in BOOLEAN : KWMaxLoadFactor(ml, ndebug)
  \/ \E k \in Keys : KWFind(k)
  \/ \E k \in Keys : KWCount(k)
  \/ \E other \in IF hash_fn \in WideHashFns THEN KTOthers ELSE KWOthers :
       KWSwap(other)

SpecKW == KWInit /\ [][KWNext]_vars

\* ------------------------------ SpecKT: the wrapper under a wider hash

KTInit ==
  /\ hash_fn \in WideHashFns
  /\ max_load_factor_ = default_max_load_factor
  /\ \E n \in 0..MaxCount, ndebug \in BOOLEAN :
       LET res == regenerate(default_filter, default_max_load_factor, n,
                             ndebug)
       IN /\ res.threw = "none"
          /\ filter = res.filter
          /\ history = IF n = 0 THEN "inserts" ELSE "any"
  /\ ref = {}
  /\ kept = {}
  /\ last = Call("new", "none", FALSE, FALSE)

SpecKT == KTInit /\ [][KWNext]_vars

\* ------------------------------------------------- the engine's contract

\* C1 (mirror law of the engine): the last call returned what the
\* reference set returns (insert's boolean is TRUE exactly when the
\* fingerprint was absent, erase's count is 1 exactly when it was present),
\* and in the state it left, for every fingerprint of q + r bits, count is
\* 1 and find is not end() exactly for the members of the reference set,
\* erase would return 1 exactly for them, insert on an engine that is not
\* full would be accepted exactly for the others, and size() is the
\* cardinality of the reference set.
MirrorLaw ==
  /\ last.op = "insert" /\ last.ret # "filter_is_full"
       => (last.ret = "true") = ~last.had
  /\ last.op = "erase" => (last.ret = "1") = last.had
  /\ last.op = "count" => (last.ret = "1") = last.had
  /\ last.op = "find" => (last.ret = "found") = last.had
  /\ size(filter) = Cardinality(ref)
  /\ \A fp \in Fingerprints(filter) :
       /\ (count(filter, fp) = 1) = (fp \in ref)
       /\ (~equal(find(filter, fp), end)) = (fp \in ref)
       /\ (erase(filter, fp).ret = 1) = (fp \in ref)
       /\ ~full(filter)
            => LET res == insert(filter, fp)
               IN ~res.threw /\ res.inserted = (fp \notin ref)

\* C1 happens: an engine of four slots was filled to capacity by accepted
\* insertions, the last of them into a slot past the canonical one.
MirrorLawWitness ==
  /\ last.op = "insert" /\ last.ret = "true"
  /\ filter.r_bits >= 1 /\ filter.num_slots = 4
  /\ size(filter) = 4
  /\ \E pos \in 0..3 : filter.is_shifted[pos] /\ filter.is_continuation[pos]

\* C2 (iteration): the traversal from begin() to end() yields the members
\* of the reference set, each once, in ascending fingerprint value, and
\* nothing else: the loop stops behind the last of them, in a build with
\* assertions and in one without.
IterationAscending ==
  \A ndebug \in BOOLEAN :
     range(filter, ndebug) = [values |-> Ascending(ref), ret |-> "none"]

\* C3 (full, absent): on a full engine insert of a fingerprint that is not
\* stored throws filter_is_full and the engine (size, the three flag
\* vectors, the remainders) is what it was.
FullInsertAbsentThrows ==
  \A fp \in Fingerprints(filter) \ ref :
    full(filter)
      => LET res == insert(filter, fp)
         IN res.threw /\ res.filter = filter

\* C3 happens: an insert of an absent fingerprint has thrown on a full
\* engine of four slots.
FullInsertAbsentWitness ==
  /\ last.op = "insert" /\ last.ret = "filter_is_full" /\ ~last.had
  /\ filter.num_slots = 4 /\ full(filter)

\* C4 as claimed: on a full engine insert of a stored fingerprint returns
\* (iterator to it, false) without throwing and leaves the engine as it was.
FullInsertPresentReturns ==
  \A fp \in Fingerprints(filter) \cap ref :
    full(filter)
      => LET res == insert(filter, fp)
         IN /\ ~res.threw /\ ~res.inserted
            /\ ~equal(res.it, end) /\ dereference(filter, res.it) = fp
            /\ res.filter = filter

\* C4 amended: on a full engine insert of a stored fingerprint throws
\* filter_is_full, as for an absent one, and leaves the engine as it was.
FullInsertPresentThrows ==
  \A fp \in Fingerprints(filter) \cap ref :
    full(filter)
      => LET res == insert(filter, fp)
         IN res.threw /\ res.filter = filter

\* C4 happens: an insert of a stored fingerprint has thrown on a full
\* engine of four slots.
FullInsertPresentWitness ==
  /\ last.op = "insert" /\ last.ret = "filter_is_full" /\ last.had
  /\ filter.num_slots = 4 /\ full(filter)

\* C13 (returned iterator): insert(fp) on an engine that is not full
\* returns an iterator that dereferences to fp and equals find(fp), both
\* when it inserted fp and when fp was stored already, and then the bool
\* is false.
InsertReturnsIteratorToFp ==
  \A fp \in Fingerprints(filter) :
    ~full(filter) =>
      /\ ~insert(filter, fp).threw
      /\ dereference(insert(filter, fp).filter, insert(filter, fp).it) = fp
      /\ equal(insert(filter, fp).it, find(insert(filter, fp).filter, fp))
      /\ insert(filter, fp).inserted <=> fp \notin ref

\* C13 happens: the last insert met its fingerprint, stored behind the
\* head of a run that is shifted away from its canonical slot.
InsertReturnsIteratorToFpWitness ==
  /\ last.op = "insert" /\ last.ret = "false" /\ last.had
  /\ ~full(filter)
  /\ \E fp \in ref :
       /\ find(filter, fp).pos # find(filter, fp).canonical_pos
       /\ filter.is_continuation[find(filter, fp).pos]

\* The slots with at least one of the three flags set.
non_empty_slots(f) ==
  {pos \in DOMAIN f.is_occupied : ~is_empty_slot(f, pos)}

\* C14 (size accounting): size() is the number of slots that are not
\* empty, and it is the number of fingerprints a traversal from begin()
\* to the end yields.
SizeAccounting ==
  /\ size(filter) = Cardinality(non_empty_slots(filter))
  /\ \A ndebug \in BOOLEAN :
       /\ range(filter, ndebug).ret = "none"
       /\ size(filter) = Len(range(filter, ndebug).values)

\* C15 as claimed: on an engine that is not full, a second insert(fp)
\* after insert(fp) returns inserted = false and leaves the engine as the
\* first insert left it.
InsertTwiceReturnsFalse ==
  \A fp \in Fingerprints(filter) :
    ~full(filter) =>
      /\ insert(insert(filter, fp).filter, fp).filter
           = insert(filter, fp).filter
      /\ ~insert(insert(filter, fp).filter, fp).threw
      /\ ~insert(insert(filter, fp).filter, fp).inserted

\* C15 amended: the second insert(fp) leaves the engine as the first
\* insert left it, flags included; it returns inserted = false unless the
\* first insert filled the engine, and then it throws filter_is_full.
InsertIdempotent ==
  \A fp \in Fingerprints(filter) :
    ~full(filter) =>
      /\ insert(insert(filter, fp).filter, fp).filter
           = insert(filter, fp).filter
      /\ IF full(insert(filter, fp).filter)
         THEN insert(insert(filter, fp).filter, fp).threw
         ELSE /\ ~insert(insert(filter, fp).filter, fp).threw
              /\ ~insert(insert(filter, fp).filter, fp).inserted
              /\ equal(insert(insert(filter, fp).filter, fp).it,
                       insert(filter, fp).it)

\* C15 happens: the last insert was a duplicate, into a run of two or more
\* elements of an engine that is not full.
InsertIdempotentWitness ==
  /\ last.op = "insert" /\ last.ret = "false"
  /\ ~full(filter)
  /\ \E pos \in DOMAIN filter.is_continuation : filter.is_continuation[pos]

\* C16 (erase of an absent fingerprint): erase(fp) of a fingerprint that
\* is not stored returns 0 and leaves the engine as it was; hence a second
\* erase(fp) after erase(fp) returns 0 and changes nothing.
EraseAbsentIsNoOp ==
  \A fp \in Fingerprints(filter) :
    /\ fp \notin ref => erase(filter, fp) = [filter |-> filter, ret |-> 0]
    /\ erase(erase(filter, fp).filter, fp)
         = [filter |-> erase(filter, fp).filter, ret |-> 0]

\* C16 happens: the last erase returned 0 for a fingerprint that is not
\* stored, while the run of its quotient exists and continues in a
\* shifted slot.
EraseAbsentIsNoOpWitness ==
  /\ last.op = "erase" /\ last.ret = "0" /\ ~last.had
  /\ filter.num_slots > 1
  /\ \E fp \in Fingerprints(filter) \ ref :
       /\ filter.is_occupied[extract_quotient(filter, fp)]
       /\ \E pos \in DOMAIN filter.is_shifted :
            filter.is_shifted[pos] /\ filter.is_continuation[pos]

\* C17 as claimed: on an engine that is not full, after insert(fp);
\* erase(fp) every fingerprint, fp included, is contained exactly when it
\* was contained before the insert.
InsertEraseRestoresAll ==
  \A fp \in Fingerprints(filter) :
    ~full(filter) =>
      LET after == erase(insert(filter, fp).filter, fp).filter
      IN \A other \in Fingerprints(filter) :
           count(after, other) = count(filter, other)

\* C17 amended: after insert(fp); erase(fp) every fingerprint other than
\* fp is contained exactly when it was contained before, and fp itself is
\* not contained, whether or not it was before.
InsertEraseRoundTrip ==
  \A fp \in Fingerprints(filter) :
    ~full(filter) =>
      LET after == erase(insert(filter, fp).filter, fp).filter
      IN \A other \in Fingerprints(filter) :
           count(after, other)
             = IF other = fp THEN 0 ELSE count(filter, other)

\* C17 happens: the last erase removed the fingerprint that an insert
\* could have put at the head of a run that other elements continue, and
\* the engine is not full.
InsertEraseRoundTripWitness ==
  /\ last.op = "erase" /\ last.ret = "1"
  /\ ~full(filter) /\ size(filter) >= 2
  /\ \E fp \in Fingerprints(filter) \ ref :
       /\ filter.is_occupied[extract_quotient(filter, fp)]
       /\ \E other \in ref :
            /\ extract_quotient(filter, other) = extract_quotient(filter, fp)
            /\ other > fp

\* The engine a constructor call with the geometry of f gives.
fresh(f) ==
  IF f.num_slots = 0 THEN default_filter ELSE new_filter(f.q_bits, f.r_bits)

\* f with the remainder of every empty slot from pos on set to zero: what
\* is left of f when the remainders that clear() and remove_entry leave
\* behind in data are taken away.
RECURSIVE without_stale_from(_, _)
without_stale_from(f, pos) ==
  IF pos >= f.num_slots THEN f
  ELSE without_stale_from(
         IF is_empty_slot(f, pos)
         THEN [f EXCEPT !.data = set_remainder(f, pos, 0)]
         ELSE f,
         pos + 1)

without_stale(f) == without_stale_from(f, 0)

\* C18 (clear identity): after clear() the engine has size 0, begin()
\* equal to end(), and the q_bits, r_bits and capacity it had; but for the
\* remainders left in data it is the engine a constructor gives. Those
\* remainders are never observed: in every reachable state each operation
\* returns what it returns without them and leaves the same engine but
\* for them, so that every sequence of operations after clear() returns
\* what it returns on a new engine.
ClearIdentity ==
  /\ size(clear(filter)) = 0
  /\ equal(begin(clear(filter)), end)
  /\ \A ndebug \in BOOLEAN :
       range(clear(filter), ndebug) = [values |-> <<>>, ret |-> "none"]
  /\ clear(filter).q_bits = filter.q_bits
  /\ clear(filter).r_bits = filter.r_bits
  /\ capacity(clear(filter)) = capacity(filter)
  /\ without_stale(clear(filter)) = fresh(filter)
  /\ last.op = "clear" => without_stale(filter) = fresh(filter)
  /\ LET g == without_stale(filter)
     IN /\ \A ndebug \in BOOLEAN : range(g, ndebug) = range(filter, ndebug)
        /\ begin(g) = begin(filter)
        /\ without_stale(clear(g)) = without_stale(clear(filter))
        /\ \A fp \in Fingerprints(filter) :
             /\ find(g, fp) = find(filter, fp)
             /\ count(g, fp) = count(filter, fp)
             /\ insert(g, fp).it = insert(filter, fp).it
             /\ insert(g, fp).inserted = insert(filter, fp).inserted
             /\ insert(g, fp).threw = insert(filter, fp).threw
             /\ without_stale(insert(g, fp).filter)
                  = without_stale(insert(filter, fp).filter)
             /\ erase(g, fp).ret = erase(filter, fp).ret
             /\ without_stale(erase(g, fp).filter)
                  = without_stale(erase(filter, fp).filter)

\* C18 happens: clear() has just run on an engine of four slots and has
\* left remainders in data.
ClearIdentityWitness ==
  /\ last.op = "clear"
  /\ filter.num_slots = 4
  /\ \E b \in DOMAIN filter.data : filter.data[b] # {}

\* C19 (default engine): the default-constructed engine, the only one with
\* r_bits = 0, has capacity 0, is empty and full, and has begin() equal to
\* end(); for every fingerprint find returns end(), count and erase return
\* 0 and insert throws filter_is_full; none of these calls, nor clear(),
\* changes it.
DefaultEngineInert ==
  filter.r_bits = 0 =>
    /\ capacity(filter) = 0 /\ filter.q_bits = 0
    /\ empty(filter) /\ full(filter)
    /\ equal(begin(filter), end)
    /\ \A fp \in 0..(Pow2(MaxQ + MaxR) - 1) :
         /\ equal(find(filter, fp), end)
         /\ count(filter, fp) = 0
         /\ erase(filter, fp) = [filter |-> filter, ret |-> 0]
         /\ insert(filter, fp).threw
         /\ insert(filter, fp).filter = filter
    /\ clear(filter) = filter
    /\ filter = default_filter

\* C19 happens: an insert into the default engine has just thrown.
DefaultEngineInertWitness ==
  /\ filter.r_bits = 0 /\ filter.num_slots = 0
  /\ last.op = "insert" /\ last.ret = "filter_is_full"

\* ------------------------------------------------- the wrapper's contract

Injective(h) == \A j, k \in DOMAIN h : h[j] = h[k] => j = k

\* The elements a sequence holds.
Range(seq) == {seq[i] : i \in 1..Len(seq)}

\* The smallest power of two that is at least n.
SmallestPow2(n) ==
  CHOOSE p \in {Pow2(i) : i \in 0..(hash_bits + 8)} :
    p >= n /\ (p = 1 \/ p \div 2 < n)

\* C5 (no false negatives): after every sequence of calls, resizes
\* included, no call has ended the program in its resize and every key
\* whose hash value was inserted and not given to erase since is reported
\* present by count and by find. (A key is not reported after an erase of
\* another key of the same hash value: the keys taken here are those whose
\* hash value is in the reference set.)
NoFalseNegative ==
  \A k \in Keys :
     hash_fn[k] \in ref
       => /\ last.ret \notin {"abort", "undefined"}
          /\ count(filter, hash_fn[k]) = 1
          /\ ~equal(find(filter, hash_fn[k]), end)

\* C6 (mirror law of the wrapper): with an injective hash, the last insert
\* that returned gave TRUE exactly when the hash value was absent from the
\* reference set and the last erase gave 1 exactly when it was present; in
\* the state left, count(k) is 1 exactly for the keys inserted and not
\* erased since, an insert that returns gives a boolean that agrees with
\* the reference set and an iterator that dereferences to the hash value,
\* erase would return 1 exactly for the members, and the iteration
\* sequence is the reference set in ascending order.
WrapperMirrorLaw ==
  Alive /\ Injective(hash_fn) /\ history # "any" =>
    /\ last.op = "insert" /\ last.ret \in {"true", "false"}
         => (last.ret = "true") = ~last.had
    /\ last.op = "erase" => (last.ret = "1") = last.had
    /\ ref = {hash_fn[k] : k \in kept}
    /\ size(filter) = Cardinality(ref)
    /\ \A ndebug \in BOOLEAN :
         range(filter, ndebug) = [values |-> Ascending(ref), ret |-> "none"]
    /\ \A k \in Keys, ndebug \in BOOLEAN :
         /\ (count(filter, hash_fn[k]) = 1) = (k \in kept)
         /\ (erase(filter, hash_fn[k]).ret = 1) = (k \in kept)
         /\ LET res == wrapper_insert(filter, max_load_factor_, hash_fn[k],
                                      ndebug)
            IN res.threw = "none"
                 => /\ res.inserted = (k \notin kept)
                    /\ dereference(res.filter, res.it) = hash_fn[k]

\* What every call that changes q_bits or r_bits keeps: the stored
\* fingerprints (an insert adds its own), size(), the ascending iteration
\* order, the hash function, and max_load_factor unless the call sets it.
ResizeKeeps ==
  /\ \A ndebug \in BOOLEAN :
       /\ Range(range(filter', ndebug).values)
            = Range(range(filter, ndebug).values) \cup (ref' \ ref)
       /\ range(filter', ndebug)
            = [values |-> Ascending(Range(range(filter', ndebug).values)),
               ret |-> "none"]
  /\ size(filter') = size(filter) + Cardinality(ref' \ ref)
  /\ last'.op # "insert" => ref' = ref
  /\ hash_fn' = hash_fn
  /\ last'.op # "max_load_factor" => max_load_factor_' = max_load_factor_

\* C7 (resize preservation): every call that has to change the geometry
\* changes it (the program does not end in it), keeps the stored
\* fingerprints, size() and the ascending iteration order, and ends with
\* 2^q slots and q + r = hash_bits. (A regenerate or reserve that asks for
\* no slots on an empty wrapper ends with the default engine, slot_count 0
\* and q = r = 0: that case is taken as the code has it. A swap gives the
\* object the geometry of another and is no resize.)
ResizePreservation ==
  [][/\ last'.ret \notin {"abort", "undefined"}
     /\ (Resized(filter, filter') /\ last'.op # "swap")
          => /\ ResizeKeeps
             /\ IF slot_count(filter') = 0
                THEN /\ filter'.q_bits = 0 /\ filter'.r_bits = 0
                     /\ size(filter) = 0
                     /\ last'.op \in {"regenerate", "reserve"}
                ELSE /\ slot_count(filter') = Pow2(filter'.q_bits)
                     /\ filter'.q_bits + filter'.r_bits = hash_bits]_vars

\* C8 (load-factor bound): after every completed call size() is at most
\* min(floor(max_load_factor * slot_count), slot_count).
LoadFactorBound ==
  Alive =>
    size(filter) <= Min((max_load_factor_[1] * slot_count(filter))
                          \div max_load_factor_[2],
                        slot_count(filter))

\* C8 happens: max_load_factor has just been lowered on a wrapper that
\* holds elements, to a value under which they fill it to its bound.
LoadFactorBoundWitness ==
  /\ last.op = "max_load_factor" /\ last.ret = "none"
  /\ Less(max_load_factor_, default_max_load_factor)
  /\ size(filter) >= 2
  /\ size(filter) = max_allowed_size(filter, max_load_factor_)

\* The first two parts of C9, for a wrapper that was default-constructed
\* and given insert calls only: slot_count() is the smallest power of two
\* that is at least ceil(size / max_load_factor), 0 when size is 0; and at
\* size = capacity an insert of a present key returns (iterator to it,
\* false) and resizes nothing.
MinimalSlotsAndDuplicates ==
  /\ slot_count(filter)
       = IF size(filter) = 0 THEN 0
         ELSE SmallestPow2(ceil_div(size(filter) * max_load_factor_[2],
                                    max_load_factor_[1]))
  /\ \A k \in Keys :
       size(filter) = max_allowed_size(filter, max_load_factor_)
         /\ hash_fn[k] \in ref
         => \A ndebug \in BOOLEAN :
              LET res == wrapper_insert(filter, max_load_factor_,
                                        hash_fn[k], ndebug)
              IN /\ res.threw = "none" /\ ~res.inserted
                 /\ dereference(res.filter, res.it) = hash_fn[k]
                 /\ res.filter = filter

\* C9 (minimum storage): the above, and at size = capacity an insert of an
\* absent key grows the wrapper to the smallest power of two that is at
\* least ceil((size + 1) / max_load_factor) and then succeeds. (When that
\* power of two is 2^hash_bits or more, r would be 0: the insert throws
\* std::length_error and the wrapper is what it was.)
MinimumStorage ==
  history = "inserts" =>
    /\ MinimalSlotsAndDuplicates
    /\ \A k \in Keys, ndebug \in BOOLEAN :
         size(filter) = max_allowed_size(filter, max_load_factor_)
           /\ hash_fn[k] \notin ref
           => LET res == wrapper_insert(filter, max_load_factor_, hash_fn[k],
                                        ndebug)
                  need == SmallestPow2(
                            ceil_div((size(filter) + 1) * max_load_factor_[2],
                                     max_load_factor_[1]))
              IN IF need >= Pow2(hash_bits)
                 THEN res.threw = "length_error" /\ res.filter = filter
                 ELSE /\ res.threw = "none" /\ res.inserted
                      /\ slot_count(res.filter) = need
                      /\ slot_count(res.filter) > slot_count(filter)

\* C10 (max geometry): with max_load_factor 1 and 2^(hash_bits - 1) stored
\* hash values, an insert of a present key returns (iterator to it, false)
\* and an insert of an absent key throws std::length_error; either leaves
\* the engine, hence size, slot_count and the iteration sequence, as it
\* was.
MaxGeometryBoundary ==
  Alive /\ max_load_factor_ = max_max_load_factor
        /\ size(filter) = Pow2(hash_bits - 1) =>
    \A k \in Keys, ndebug \in BOOLEAN :
      LET res == wrapper_insert(filter, max_load_factor_, hash_fn[k], ndebug)
      IN /\ res.filter = filter
         /\ size(res.filter) = size(filter)
         /\ slot_count(res.filter) = slot_count(filter)
         /\ range(res.filter, ndebug) = range(filter, ndebug)
         /\ IF hash_fn[k] \in ref
            THEN /\ res.threw = "none" /\ ~res.inserted
                 /\ dereference(res.filter, res.it) = hash_fn[k]
            ELSE res.threw = "length_error"

\* C10 happens: at max_load_factor 1 with 2^(hash_bits - 1) stored hash
\* values, an insert of an absent key has thrown std::length_error.
MaxGeometryBoundaryWitness ==
  /\ max_load_factor_ = max_max_load_factor
  /\ size(filter) = Pow2(hash_bits - 1)
  /\ last.op = "insert" /\ last.ret = "length_error" /\ ~last.had

\* q_bits that regenerate(slots) computes for the engine f.
required_q(f, ml, slots) ==
  calc_required_q(Max(ceil_over(size(f), ml), slots))

\* C11 (no wrap-around): every call that needs 2^q' slots with
\* q' >= hash_bits, be it regenerate(n), reserve(n), max_load_factor(ml)
\* or an insert that has to grow, fails with std::length_error.
CapacityExceededWheneverTooManySlots ==
  Alive =>
    /\ \A n \in 0..MaxCount :
         required_q(filter, max_load_factor_, n) >= hash_bits
           => \A ndebug \in BOOLEAN :
                regenerate(filter, max_load_factor_, n, ndebug).threw
                  = "length_error"
    /\ \A n \in 0..MaxCount :
         required_q(filter, max_load_factor_,
                    ceil_over(n, max_load_factor_)) >= hash_bits
           => \A ndebug \in BOOLEAN :
                reserve(filter, max_load_factor_, n, ndebug).threw
                  = "length_error"
    /\ \A ml \in MlInputs :
         /\ size(filter) > max_allowed_size(filter, clamp(ml))
         /\ required_q(filter, clamp(ml), 0) >= hash_bits
         => \A ndebug \in BOOLEAN :
              set_max_load_factor(filter, ml, ndebug).threw = "length_error"
    /\ \A k \in Keys :
         /\ size(filter) = max_allowed_size(filter, max_load_factor_)
         /\ hash_fn[k] \notin ref
         /\ required_q(filter, max_load_factor_,
                       ceil_over(size(filter) + 1, max_load_factor_))
              >= hash_bits
         => \A ndebug \in BOOLEAN :
              wrapper_insert(filter, max_load_factor_, hash_fn[k],
                             ndebug).threw = "length_error"

\* C12 (truncation): the wrapper hands the engine hash_fn(key) reduced to
\* its low hash_bits bits: no call gives the engine a fingerprint whose
\* quotient is not a slot index, and a lookup of any key is the lookup of
\* its hash modulo 2^hash_bits.
HashReducedToLowBits ==
  Alive =>
    \A k \in Keys :
      /\ \A ndebug \in BOOLEAN :
           wrapper_insert_defined(filter, max_load_factor_, hash_fn[k],
                                  ndebug)
      /\ find_defined(filter, hash_fn[k])
      /\ count(filter, hash_fn[k])
           = count(filter, hash_fn[k] % Pow2(hash_bits))

\* The slot count that holding m elements under ml takes: the smallest
\* power of two that is at least ceil(m / ml), and 0 for no element.
expected_slot_count(m, ml) ==
  IF m = 0 THEN 0 ELSE SmallestPow2(ceil_over(m, ml))

\* C20 (reserve): reserve(n), in every state and for every n, keeps the
\* stored fingerprints and sets slot_count() to the smallest power of two
\* that is at least ceil(max(size, n) / max_load_factor), which gives
\* room for max(size, n) elements, may be less than the slot count before
\* and for n = 0 is the minimum for the current size. (When that slot
\* count is 2^hash_bits or more the call throws and leaves the wrapper as
\* it was.)
ReservePrecise ==
  Alive =>
    \A n \in 0..MaxCount, ndebug \in BOOLEAN :
      LET res == reserve(filter, max_load_factor_, n, ndebug)
          m == Max(size(filter), n)
      IN IF expected_slot_count(m, max_load_factor_) >= Pow2(hash_bits)
         THEN res.threw # "none" /\ res.filter = filter
         ELSE /\ res.threw = "none"
              /\ slot_count(res.filter)
                   = expected_slot_count(m, max_load_factor_)
              /\ size(res.filter) = size(filter)
              /\ \A k \in Keys :
                   count(res.filter, hash_fn[k]) = count(filter, hash_fn[k])
              /\ max_allowed_size(res.filter, max_load_factor_) >= m

\* C21 (max_load_factor): max_load_factor(ml) stores ml clamped into
\* [0.01, 1]; when size() is above floor(ml' * slot_count) for the stored
\* ml', the slot count becomes the smallest power of two that is at least
\* ceil(size / ml'), otherwise it stays; the slot count never decreases
\* and the stored fingerprints stay. (When the slot count that is needed
\* is 2^hash_bits or more the call does not return: the exception that
\* regenerate throws inside the noexcept function ends the program.)
MaxLoadFactorRegenerates ==
  Alive =>
    \A ml \in MlInputs, ndebug \in BOOLEAN :
      LET res == set_max_load_factor(filter, ml, ndebug)
      IN IF /\ size(filter) > (clamp(ml)[1] * slot_count(filter))
                                \div clamp(ml)[2]
            /\ expected_slot_count(size(filter), clamp(ml))
                 >= Pow2(hash_bits)
         THEN res.threw = "terminate"
         ELSE /\ res.threw = "none"
              /\ res.max_load_factor_ = clamp(ml)
              /\ ~Less(res.max_load_factor_, min_max_load_factor)
              /\ ~Less(max_max_load_factor, res.max_load_factor_)
              /\ slot_count(res.filter)
                   = IF size(filter) <= (clamp(ml)[1] * slot_count(filter))
                                          \div clamp(ml)[2]
                     THEN slot_count(filter)
                     ELSE expected_slot_count(size(filter), clamp(ml))
              /\ slot_count(res.filter) >= slot_count(filter)
              /\ size(res.filter) = size(filter)
              /\ \A k \in Keys :
                   count(res.filter, hash_fn[k]) = count(filter, hash_fn[k])

\* C22 (failed growth): when max_load_factor(ml) or reserve(n) needs a
\* slot count of 2^hash_bits or more, the caller gets std::length_error
\* and the wrapper is as before the call: max_load_factor(), slot count,
\* size and contents, with size() within max_allowed_size().
FailedGrowthIsPropagatedAndHarmless ==
  /\ last.ret # "terminate"
  /\ Alive =>
       /\ \A ml \in MlInputs :
            /\ size(filter) > max_allowed_size(filter, clamp(ml))
            /\ required_q(filter, clamp(ml), 0) >= hash_bits
            => LET res == set_max_load_factor(filter, ml, FALSE)
               IN /\ res.threw = "length_error"
                  /\ res.max_load_factor_ = max_load_factor_
                  /\ res.filter = filter
                  /\ size(res.filter)
                       <= max_allowed_size(res.filter, res.max_load_factor_)
       /\ \A n \in 0..MaxCount :
            required_q(filter, max_load_factor_,
                       ceil_over(n, max_load_factor_)) >= hash_bits
            => LET res == reserve(filter, max_load_factor_, n, FALSE)
               IN /\ res.threw = "length_error"
                  /\ res.filter = filter
                  /\ size(res.filter)
                       <= max_allowed_size(res.filter, max_load_factor_)

\* C23 (no shrinking on removal): erase(key), erase(iterator) and clear()
\* leave slot_count() and max_load_factor() as they were, whatever they
\* remove: a wrapper emptied by them keeps the slot count it had.
RemovalKeepsSlotCount ==
  [][/\ last'.op \in {"erase", "clear"}
        => /\ slot_count(filter') = slot_count(filter)
           /\ max_load_factor_' = max_load_factor_
     /\ \A h \in ref :
          slot_count(erase_at(filter, find(filter, h))) = slot_count(filter)
     /\ slot_count(clear(filter)) = slot_count(filter)]_vars

\* C23 happens: erase has just removed the last element of a wrapper of
\* four slots.
RemovalKeepsSlotCountWitness ==
  /\ last.op = "erase" /\ last.ret = "1"
  /\ size(filter) = 0 /\ slot_count(filter) = 4

\* The wrapper of the current state.
this_wrapper == wrapper(filter, hash_fn, max_load_factor_)

\* The wrapper that holds the fingerprints stored in 2^q slots: what a
\* construction with a slot count and inserts that find room give.
with_slots(stored, q) ==
  wrapper(insert_all(new_filter(q, hash_bits - q), Ascending(stored),
                     FALSE).filter,
          hash_fn, max_load_factor_)

\* C24 (equality): two wrappers compare equal exactly when they store the
\* same fingerprints. The wrapper is compared with wrappers of the same
\* fingerprints and another slot count, another max load factor or
\* another hash function, with which operator== returns true and
\* operator!= false; and with wrappers that hold a fingerprint less, or
\* one fingerprint exchanged for another (the same size), with which
\* operator== returns false and operator!= true.
EqualityIsOfFingerprints ==
  Alive =>
    \A ndebug \in BOOLEAN :
      /\ \A q \in 0..(hash_bits - 1) :
           size(filter) <= Pow2(q) =>
             /\ operator_eq(this_wrapper, with_slots(ref, q), ndebug)
                  = "true"
             /\ operator_eq(with_slots(ref, q), this_wrapper, ndebug)
                  = "true"
             /\ operator_ne(this_wrapper, with_slots(ref, q), ndebug)
                  = "false"
      /\ \A h \in HashFns, ml \in MlInputs :
           operator_eq(this_wrapper, wrapper(filter, h, clamp(ml)), ndebug)
             = "true"
      /\ \A k \in Keys :
           LET other == wrapper(erase(filter, hash_fn[k]).filter, hash_fn,
                                max_load_factor_)
           IN /\ operator_eq(this_wrapper, other, ndebug)
                   = Bool(hash_fn[k] \notin ref)
              /\ operator_eq(other, this_wrapper, ndebug)
                   = Bool(hash_fn[k] \notin ref)
      /\ \A j, k \in Keys :
           LET res == insert(erase(filter, hash_fn[j]).filter, hash_fn[k])
               other == wrapper(res.filter, hash_fn, max_load_factor_)
           IN hash_fn[j] \in ref /\ hash_fn[k] \notin ref =>
                /\ size(other.filter) = size(filter)
                /\ operator_ne(this_wrapper, other, ndebug) = "true"
                /\ operator_ne(other, this_wrapper, ndebug) = "true"

\* C25 as claimed: the slot count is always the power of two 2^q_bits,
\* for the default engine and for a wrapper without slots as for any
\* other.
SlotCountAlwaysPowerOfTwo ==
  Alive =>
    /\ capacity(filter) = Pow2(filter.q_bits)
    /\ slot_count(filter) \in {Pow2(q) : q \in 0..hash_bits}

\* C25 amended: the slot count is the power of two 2^q_bits, except that
\* the default engine, which is what a wrapper without slots holds, has
\* q_bits = 0 and the slot count 0, which is no power of two.
SlotCountPowerOfTwo ==
  Alive =>
    IF filter.r_bits = 0
    THEN /\ filter = default_filter
         /\ filter.q_bits = 0
         /\ capacity(filter) = 0 /\ slot_count(filter) = 0
    ELSE /\ capacity(filter) = Pow2(filter.q_bits)
         /\ slot_count(filter) \in {Pow2(q) : q \in 0..hash_bits}
         /\ slot_count(filter) = Cardinality(DOMAIN filter.is_occupied)

\* C25 happens: reserve has just taken the last slots from a wrapper
\* that had some, and left it with the default engine.
SlotCountPowerOfTwoWitness ==
  /\ last.op = "reserve" /\ last.ret = "none" /\ last.resized
  /\ slot_count(filter) = 0 /\ filter.q_bits = 0

\* C26 (max_size): size() never exceeds max_size() = 2^(hash_bits - 1),
\* and under max_load_factor 1 the bound is reached: below it, every
\* insert of a hash value that is not stored succeeds.
SizeWithinMaxSize ==
  Alive =>
    /\ max_size = Pow2(hash_bits - 1)
    /\ size(filter) <= max_size
    /\ max_load_factor_ = max_max_load_factor /\ size(filter) < max_size
       => \A k \in Keys, ndebug \in BOOLEAN :
            hash_fn[k] \notin ref =>
              LET res == wrapper_insert(filter, max_load_factor_, hash_fn[k],
                                        ndebug)
              IN /\ res.threw = "none" /\ res.inserted
                 /\ size(res.filter) = size(filter) + 1
                 /\ size(res.filter) <= max_size

\* C27 (r = 0 rejected): no engine with zero remainder bits exists in a
\* running program but the default-constructed one: quotient_filter_fp(q, 0)
\* is rejected.
ZeroRemainderRejected ==
  Alive => (filter.r_bits = 0 => filter = default_filter)

\* The (occupied, continuation, shifted) triple of a slot.
flags(f, pos) == <<f.is_occupied[pos], f.is_continuation[pos], f.is_shifted[pos]>>

\* C28 (flag well-formedness): in every engine state reached by insert, erase
\* and clear no slot is a continuation without being shifted, that is, the
\* triple of every slot is one of 000, 100, 001, 101, 011, 111.
FlagsWellFormed ==
  \A pos \in DOMAIN filter.is_occupied :
     /\ filter.is_continuation[pos] => filter.is_shifted[pos]
     /\ flags(filter, pos) \in
          {<<FALSE, FALSE, FALSE>>, <<TRUE, FALSE, FALSE>>,
           <<FALSE, FALSE, TRUE>>, <<TRUE, FALSE, TRUE>>,
           <<FALSE, TRUE, TRUE>>, <<TRUE, TRUE, TRUE>>}

\* An erase has just removed an element and left a cluster of an unshifted
\* head, an occupied continuation slot and a shifted head.
FlagsWellFormedWitness ==
  /\ last.op = "erase"
  /\ last.ret = "1"
  /\ \E pos \in DOMAIN filter.is_occupied :
        flags(filter, pos) = <<TRUE, TRUE, TRUE>>
  /\ \E pos \in DOMAIN filter.is_occupied :
        flags(filter, pos) = <<FALSE, FALSE, TRUE>>
  /\ \E pos \in DOMAIN filter.is_occupied :
        flags(filter, pos) = <<TRUE, FALSE, FALSE>>

\* The stored fingerprints whose quotient is i.
run_of(f, stored, i) == {fp \in stored : extract_quotient(f, fp) = i}

\* C29 (occupied flag): in every reachable engine state is_occupied[i] is
\* true exactly when at least one stored fingerprint has quotient i.
OccupiedIffQuotientStored ==
  \A i \in DOMAIN filter.is_occupied :
     filter.is_occupied[i] <=> run_of(filter, ref, i) # {}

\* An erase has just removed an element; one run still has two elements,
\* another quotient has one, and some quotient has none.
OccupiedIffQuotientStoredWitness ==
  /\ last.op = "erase"
  /\ last.ret = "1"
  /\ \E i \in DOMAIN filter.is_occupied :
        filter.is_occupied[i] /\ Cardinality(run_of(filter, ref, i)) = 2
  /\ \E i \in DOMAIN filter.is_occupied :
        filter.is_occupied[i] /\ Cardinality(run_of(filter, ref, i)) = 1
  /\ \E i \in DOMAIN filter.is_occupied : ~filter.is_occupied[i]

\* The slot that holds the stored fingerprint fp.
slot_of(f, fp) == find(f, fp).pos

\* fp is not the smallest stored fingerprint of its quotient.
not_first_of_run(f, stored, fp) ==
  \E other \in run_of(f, stored, extract_quotient(f, fp)) :
     extract_remainder(f, other) < extract_remainder(f, fp)

\* C30 (shifted and continuation flags): in every reachable engine state the
\* non-empty slots are the slots of the stored fingerprints, each holding
\* its fingerprint's remainder; a slot is shifted exactly when its
\* fingerprint's quotient is not the slot, and is a continuation exactly
\* when its fingerprint is not the smallest of its run.
ShiftedAndContinuationMeaning ==
  /\ non_empty_slots(filter) = {slot_of(filter, fp) : fp \in ref}
  /\ \A fp \in ref :
       /\ get_remainder(filter, slot_of(filter, fp))
            = extract_remainder(filter, fp)
       /\ filter.is_shifted[slot_of(filter, fp)]
            <=> extract_quotient(filter, fp) # slot_of(filter, fp)
       /\ filter.is_continuation[slot_of(filter, fp)]
            <=> not_first_of_run(filter, ref, fp)

\* The engine is what erase(fp) leaves of an engine in which g was a
\* shifted run head: g is now in its canonical slot and not shifted.
ShiftedAndContinuationMeaningWitness ==
  /\ last.op = "erase"
  /\ last.ret = "1"
  /\ \E fp \in Fingerprints(filter) \ ref, g \in ref :
       /\ ~full(filter)
       /\ insert(filter, fp).filter.is_shifted[slot_of(insert(filter, fp).filter, g)]
       /\ ~insert(filter, fp).filter.is_continuation[slot_of(insert(filter, fp).filter, g)]
       /\ erase(insert(filter, fp).filter, fp).filter = filter
       /\ slot_of(filter, g) = extract_quotient(filter, g)
       /\ ~filter.is_shifted[slot_of(filter, g)]

\* ---------------------------------------------- the layout of the slots

(***************************************************************************)
(* The place of every stored fingerprint, told from the stored set alone.  *)
(* Seen from a slot a (the anchor) the fingerprints are ordered by their   *)
(* quotient's distance from a and then by remainder; each takes the first  *)
(* slot at or after its quotient's that the ones before it leave free.     *)
(* The anchor is right when nothing is pushed around the array past it.    *)
(***************************************************************************)
distance(f, a, pos) == (pos + f.num_slots - a) % f.num_slots

rotated(f, a, fp) ==
  distance(f, a, extract_quotient(f, fp)) * Pow2(f.r_bits)
    + extract_remainder(f, fp)

RECURSIVE unrolled(_, _, _, _)
unrolled(f, stored, a, fp) ==
  LET before == {g \in stored : rotated(f, a, g) < rotated(f, a, fp)}
      home == distance(f, a, extract_quotient(f, fp))
  IN IF before = {} THEN home
     ELSE LET pred == CHOOSE g \in before :
                        \A h \in before : rotated(f, a, h) <= rotated(f, a, g)
          IN Max(unrolled(f, stored, a, pred) + 1, home)

anchors(f, stored) ==
  {a \in DOMAIN f.is_occupied :
     \A fp \in stored : unrolled(f, stored, a, fp) < f.num_slots}

placed(f, stored, a, fp) == (a + unrolled(f, stored, a, fp)) % f.num_slots

\* The remainders of a run: the slot pos and the continuation slots after it.
RECURSIVE run_from(_, _, _)
run_from(f, pos, fuel) ==
  <<get_remainder(f, pos)>> \o
    (IF fuel > 0 /\ f.is_continuation[incr_pos(f, pos)]
     THEN run_from(f, incr_pos(f, pos), fuel - 1)
     ELSE <<>>)

\* The smallest stored fingerprint of quotient i.
head_of(f, stored, i) ==
  CHOOSE fp \in run_of(f, stored, i) :
    \A g \in run_of(f, stored, i) : fp <= g

\* C31 (cluster integrity): for every occupied quotient i find_run_start(i)
\* is the slot of the head of i's run, and that slot with the continuation
\* slots after it holds exactly the remainders of the stored fingerprints
\* of quotient i, in strictly ascending order, also around the array's end.
ClusterIntegrity ==
  /\ ref # {} => anchors(filter, ref) # {}
  /\ \A i \in DOMAIN filter.is_occupied :
       filter.is_occupied[i] =>
         /\ \A a \in anchors(filter, ref) :
              find_run_start(filter, i)
                = placed(filter, ref, a, head_of(filter, ref, i))
         /\ ~filter.is_continuation[find_run_start(filter, i)]
         /\ run_from(filter, find_run_start(filter, i), filter.num_slots)
              = Ascending({extract_remainder(filter, fp) :
                             fp \in run_of(filter, ref, i)})

\* An erase has left a run of two in the last two slots and, pushed by it
\* around the array's end into slot 0, the run of the last quotient.
ClusterIntegrityWitness ==
  /\ filter.num_slots = 4
  /\ last.op = "erase"
  /\ last.ret = "1"
  /\ Len(run_from(filter, 2, 4)) = 2
  /\ filter.is_occupied[3]
  /\ find_run_start(filter, 3) = 0

\* The slots that hold the first element of a run.
run_heads(f) ==
  {pos \in DOMAIN f.is_occupied :
     ~is_empty_slot(f, pos) /\ ~f.is_continuation[pos]}

\* The quotients that have a run.
occupied_quotients(f) == {i \in DOMAIN f.is_occupied : f.is_occupied[i]}

\* How many slots of S come before pos, going round from the slot a.
rank(f, S, a, pos) ==
  Cardinality({p \in S : distance(f, a, p) < distance(f, a, pos)})

\* C32 (order of runs): seen from any slot that is not shifted (an empty
\* slot or the first slot of a cluster), the runs come in the order of
\* their canonical quotients: the k-th run head is where find_run_start
\* puts the k-th occupied quotient, it holds that quotient's remainders,
\* and it is not before the quotient's own slot.
RunsInQuotientOrder ==
  /\ filter.num_slots > 0 =>
        \E a \in DOMAIN filter.is_shifted : ~filter.is_shifted[a]
  /\ Cardinality(run_heads(filter)) = Cardinality(occupied_quotients(filter))
  /\ \A a \in DOMAIN filter.is_shifted :
       ~filter.is_shifted[a] =>
         \A h \in run_heads(filter), i \in occupied_quotients(filter) :
            rank(filter, run_heads(filter), a, h)
              = rank(filter, occupied_quotients(filter), a, i)
            => /\ find_run_start(filter, i) = h
               /\ distance(filter, a, i) <= distance(filter, a, h)
               /\ run_from(filter, h, filter.num_slots)
                    = Ascending({extract_remainder(filter, fp) :
                                   fp \in run_of(filter, ref, i)})

\* An erase has left one cluster of two runs that starts in slot 2: the
\* run of quotient 2 in slots 2 and 3 and after it, around the array's
\* end, the run of quotient 3.
RunsInQuotientOrderWitness ==
  /\ filter.num_slots = 4
  /\ last.op = "erase"
  /\ last.ret = "1"
  /\ occupied_quotients(filter) = {2, 3}
  /\ run_heads(filter) = {2, 0}
  /\ filter.is_continuation[3]

\* C33 (increment reaches end()): in every engine state that is not empty,
\* size() increments from begin() give an iterator that operator== finds
\* equal to end(), and none before it does: a loop from begin() to end()
\* stops after exactly size() steps.
IncrementOfLastIsEnd ==
  (Alive /\ ~empty(filter)) =>
     /\ equal(advance(filter, begin(filter), size(filter)), end)
     /\ \A n \in 0..(size(filter) - 1) :
          ~equal(advance(filter, begin(filter), n), end)

\* C34 (traversal from find): for every stored fingerprint fp the loop
\* from find(fp) to end() yields exactly the stored fingerprints that are
\* not less than fp, in ascending order, and stops there.
TraversalFromFind ==
  \A fp \in ref, ndebug \in BOOLEAN :
     range_from(filter, find(filter, fp), 2 * filter.num_slots + 2, ndebug)
       = [values |-> Ascending({g \in ref : g >= fp}), ret |-> "none"]

\* ------------------------------------------------- the loops' exits

(***************************************************************************)
(* Every loop of the engine, with a count of its iterations: the loop      *)
(* reaches its exit condition within fuel iterations.  The operations are  *)
(* built from the loops as in the code.                                    *)
(***************************************************************************)
RECURSIVE find_next_occupied_exits(_, _, _)
find_next_occupied_exits(f, pos, fuel) ==
  /\ fuel > 0
  /\ \/ f.is_occupied[incr_pos(f, pos)]
     \/ find_next_occupied_exits(f, incr_pos(f, pos), fuel - 1)

RECURSIVE find_next_run_quotient_exits(_, _, _)
find_next_run_quotient_exits(f, pos, fuel) ==
  /\ fuel > 0
  /\ \/ pos + 1 = f.num_slots
     \/ f.is_occupied[pos + 1]
     \/ find_next_run_quotient_exits(f, pos + 1, fuel - 1)

RECURSIVE cluster_start_exits(_, _, _)
cluster_start_exits(f, pos, fuel) ==
  /\ fuel > 0
  /\ \/ ~f.is_shifted[decr_pos(f, pos)]
     \/ cluster_start_exits(f, decr_pos(f, pos), fuel - 1)

RECURSIVE next_run_exits(_, _, _)
next_run_exits(f, pos, fuel) ==
  /\ fuel > 0
  /\ \/ ~f.is_continuation[incr_pos(f, pos)]
     \/ next_run_exits(f, incr_pos(f, pos), fuel - 1)

RECURSIVE skip_runs_exits(_, _, _, _, _)
skip_runs_exits(f, pos, quotient_pos, canonical_pos, fuel) ==
  \/ quotient_pos = canonical_pos
  \/ /\ fuel > 0
     /\ next_run_exits(f, pos, f.num_slots)
     /\ find_next_occupied_exits(f, quotient_pos, f.num_slots)
     /\ skip_runs_exits(f, next_run(f, pos),
                        find_next_occupied(f, quotient_pos),
                        canonical_pos, fuel - 1)

find_run_start_exits(f, canonical_pos) ==
  \/ ~f.is_shifted[canonical_pos]
  \/ /\ cluster_start_exits(f, canonical_pos, f.num_slots)
     /\ skip_runs_exits(f, cluster_start(f, canonical_pos),
                        cluster_start(f, canonical_pos), canonical_pos,
                        f.num_slots)

\* The search loop of find and of insert.
RECURSIVE search_exits(_, _, _, _)
search_exits(f, pos, fp_remainder, fuel) ==
  /\ fuel > 0
  /\ \/ get_remainder(f, pos) >= fp_remainder
     \/ ~f.is_continuation[incr_pos(f, pos)]
     \/ search_exits(f, incr_pos(f, pos), fp_remainder, fuel - 1)

find_exits(f, fp) ==
  \/ empty(f)
  \/ ~f.is_occupied[extract_quotient(f, fp)]
  \/ /\ find_run_start_exits(f, extract_quotient(f, fp))
     /\ search_exits(f, find_run_start(f, extract_quotient(f, fp)),
                     extract_remainder(f, fp), f.num_slots)

RECURSIVE insert_into_exits(_, _, _)
insert_into_exits(f, pos, fuel) ==
  /\ fuel > 0
  /\ \/ is_empty_slot(f, pos)
     \/ insert_into_exits(f, incr_pos(f, pos), fuel - 1)

\* insert from find_run_start on; g is the engine with is_occupied set.
\* Where the search finds fp_remainder in the run, insert returns without
\* a call of insert_into; where it ends on the first slot of the run,
\* insert makes that slot a continuation before it calls insert_into.
insert_in_cluster_exits(g, canonical_pos, fp_remainder, run_was_empty) ==
  /\ find_run_start_exits(g, canonical_pos)
  /\ \/ /\ run_was_empty
        /\ insert_into_exits(g, find_run_start(g, canonical_pos),
                             g.num_slots)
     \/ /\ ~run_was_empty
        /\ search_exits(g, find_run_start(g, canonical_pos), fp_remainder,
                        g.num_slots)
        /\ LET run_start == find_run_start(g, canonical_pos)
               found == insert_search(g, run_start, fp_remainder)
           IN \/ found.dup
              \/ insert_into_exits(
                   IF found.pos = run_start
                   THEN [g EXCEPT !.is_continuation[found.pos] = TRUE]
                   ELSE g,
                   found.pos, g.num_slots)

\* insert(fp); an engine without slots is full and has no loop to run.
insert_exits(f, fp) ==
  \/ full(f)
  \/ f.num_slots = 0
  \/ is_empty_slot(f, extract_quotient(f, fp))
  \/ insert_in_cluster_exits(
       [f EXCEPT !.is_occupied[extract_quotient(f, fp)] = TRUE],
       extract_quotient(f, fp), extract_remainder(f, fp),
       ~f.is_occupied[extract_quotient(f, fp)])

\* The loop of remove_entry, the engine changing as the loop goes.
RECURSIVE move_left_exits(_, _, _, _)
move_left_exits(f, pos, quotient_pos, fuel) ==
  /\ fuel > 0
  /\ \/ ~f.is_shifted[incr_pos(f, pos)]
     \/ /\ f.is_continuation[incr_pos(f, pos)]
           \/ find_next_occupied_exits(f, quotient_pos, f.num_slots)
        /\ move_left_exits(
             [f EXCEPT !.is_continuation[pos] =
                          f.is_continuation[incr_pos(f, pos)],
                       !.is_shifted[pos] =
                          IF ~f.is_continuation[incr_pos(f, pos)]
                             /\ find_next_occupied(f, quotient_pos) = pos
                          THEN FALSE ELSE @],
             incr_pos(f, pos),
             IF f.is_continuation[incr_pos(f, pos)] THEN quotient_pos
             ELSE find_next_occupied(f, quotient_pos),
             fuel - 1)

erase_exits(f, fp) ==
  /\ find_exits(f, fp)
  /\ \/ equal(find(f, fp), end)
     \/ move_left_exits(f, find(f, fp).pos, find(f, fp).canonical_pos,
                        f.num_slots)

begin_exits(f) ==
  \/ empty(f)
  \/ /\ f.is_occupied[0] \/ find_next_occupied_exits(f, 0, f.num_slots)
     /\ find_run_start_exits(f, IF f.is_occupied[0] THEN 0
                                ELSE find_next_occupied(f, 0))

increment_exits(f, it) ==
  \/ f.is_continuation[incr_pos(f, it.pos)]
  \/ /\ find_next_run_quotient_exits(f, it.canonical_pos, f.num_slots)
     /\ \/ find_next_run_quotient(f, it.canonical_pos) = f.num_slots
        \/ f.is_shifted[incr_pos(f, it.pos)]
        \/ f.is_occupied[incr_pos(f, it.pos)]
        \/ find_next_occupied_exits(f, incr_pos(f, it.pos), f.num_slots)

\* C35 (termination): in every reachable engine state find, insert and
\* erase of every fingerprint, begin, and the increment of every iterator
\* that points to a stored fingerprint reach the exit of each of their
\* loops, within as many iterations as there are slots.
EveryOperationTerminates ==
  Alive =>
    /\ \A fp \in Fingerprints(filter) :
         /\ find_exits(filter, fp)
         /\ insert_exits(filter, fp)
         /\ erase_exits(filter, fp)
    /\ begin_exits(filter)
    /\ \A n \in 0..(size(filter) - 1) :
         increment_exits(filter, advance(filter, begin(filter), n))

\* The table is full and one cluster covers the whole array, around its
\* end; an insert has just been refused.
EveryOperationTerminatesWitness ==
  /\ filter.num_slots = 4
  /\ full(filter)
  /\ Cardinality({pos \in DOMAIN filter.is_shifted :
                    ~filter.is_shifted[pos]}) = 1
  /\ filter.is_shifted[0]
  /\ last.op = "insert"
  /\ last.ret = "filter_is_full"

\* The engine that inserting the fingerprints of stored, smallest first,
\* into a new engine of f's geometry gives.
rebuilt(f, stored) ==
  insert_all(fresh(f), Ascending(stored), FALSE).filter

\* C36 (history independence): the flags of every slot and the remainder
\* of every slot that is not empty are those of the engine built anew from
\* the stored set: whatever inserts and erases led here, the stored set
\* alone determines them.
HistoryIndependence ==
  without_stale(filter) = without_stale(rebuilt(filter, ref))

\* An erase has left three fingerprints of two quotients in one cluster,
\* the larger ones pushed right.
HistoryIndependenceWitness ==
  /\ last.op = "erase"
  /\ last.ret = "1"
  /\ size(filter) = 3
  /\ Cardinality(occupied_quotients(filter)) = 2
  /\ \E pos \in DOMAIN filter.is_shifted :
        filter.is_shifted[pos] /\ ~filter.is_continuation[pos]
  /\ \E pos \in DOMAIN filter.is_shifted : filter.is_continuation[pos]
  /\ filter # rebuilt(filter, ref)

\* The slots from pos through the first empty slot.
RECURSIVE through_empty(_, _, _)
through_empty(f, pos, fuel) ==
  {pos} \cup (IF is_empty_slot(f, pos) \/ fuel = 0 THEN {}
              ELSE through_empty(f, incr_pos(f, pos), fuel - 1))

\* The slots from pos through the last slot of its cluster: the one before
\* the first slot that is not shifted.
RECURSIVE through_cluster(_, _, _)
through_cluster(f, pos, fuel) ==
  {pos} \cup (IF ~f.is_shifted[incr_pos(f, pos)] \/ fuel = 0 THEN {}
              ELSE through_cluster(f, incr_pos(f, pos), fuel - 1))

\* g differs from f in no is_occupied flag but that of quotient, and in no
\* is_continuation flag, is_shifted flag or remainder but those of slots.
framed(f, g, quotient, slots) ==
  /\ DOMAIN g.is_occupied = DOMAIN f.is_occupied
  /\ g.q_bits = f.q_bits /\ g.r_bits = f.r_bits
  /\ \A i \in DOMAIN f.is_occupied :
       /\ i # quotient => g.is_occupied[i] = f.is_occupied[i]
       /\ i \notin slots =>
            /\ g.is_continuation[i] = f.is_continuation[i]
            /\ g.is_shifted[i] = f.is_shifted[i]
            /\ get_remainder(g, i) = get_remainder(f, i)

\* C37 (frame of insert and erase): in every reachable engine state a
\* successful insert(fp) changes no is_occupied flag but that of fp's
\* quotient and no other flag or remainder outside the slots from the
\* position it inserts at through the first empty slot; erase(fp) of a
\* stored fp changes no is_occupied flag but that of fp's quotient and no
\* other flag or remainder outside the slots from the position it removes
\* through the last slot of the cluster.
FrameOfInsertAndErase ==
  Alive =>
    \A fp \in Fingerprints(filter) :
       /\ (fp \notin ref /\ ~full(filter)) =>
            framed(filter, insert(filter, fp).filter,
                   extract_quotient(filter, fp),
                   through_empty(filter, insert(filter, fp).it.pos,
                                 filter.num_slots))
       /\ fp \in ref =>
            framed(filter, erase(filter, fp).filter,
                   extract_quotient(filter, fp),
                   through_cluster(filter, find(filter, fp).pos,
                                   filter.num_slots))

\* The engine is what insert(fp) has made of an engine with two more
\* fingerprints: one before fp's position, untouched, and one from there
\* on, moved right; and erase(fp) leaves the first where it is.
FrameOfInsertAndEraseWitness ==
  /\ last.op = "insert"
  /\ last.ret = "true"
  /\ size(filter) = 3
  /\ \E fp \in ref :
       /\ insert(erase(filter, fp).filter, fp).filter = filter
       /\ Cardinality(through_empty(erase(filter, fp).filter,
                                    find(filter, fp).pos,
                                    filter.num_slots)) = 2
       /\ Cardinality(through_cluster(filter, find(filter, fp).pos,
                                      filter.num_slots)) = 2
       /\ \E pos \in non_empty_slots(filter) :
            pos \notin through_cluster(filter, find(filter, fp).pos,
                                       filter.num_slots)

\* ------------------------------------------------- the code's assertions

\* The assertion inside the loop of remove_entry holds every time the loop
\* reaches it: quotient_pos != next_pos.
RECURSIVE move_left_asserts(_, _, _)
move_left_asserts(f, pos, quotient_pos) ==
  LET next_pos == incr_pos(f, pos)
      f1 == [f EXCEPT !.data = set_remainder(f, pos,
                                             get_remainder(f, next_pos)),
                      !.is_continuation[pos] = f.is_continuation[next_pos]]
      new_run == ~f1.is_continuation[pos]
      qp == IF new_run THEN find_next_occupied(f1, quotient_pos)
            ELSE quotient_pos
      f2 == IF new_run /\ qp = pos
            THEN [f1 EXCEPT !.is_shifted[pos] = FALSE]
            ELSE f1
  IN \/ ~f.is_shifted[next_pos]
     \/ /\ new_run => qp # next_pos
        /\ move_left_asserts(f2, next_pos, qp)

\* The four assertions of remove_entry hold.
remove_entry_asserts(f, remove_pos, canonical_pos) ==
  /\ ~is_empty_slot(f, remove_pos)
  /\ f.is_occupied[canonical_pos]
  /\ move_left_asserts(f, remove_pos, canonical_pos)
  /\ LET pos == move_left(f, remove_pos, canonical_pos).pos
     IN \/ ~f.is_occupied[pos]
        \/ pos = remove_pos /\ pos = canonical_pos

\* C38 (assertions): in every reachable engine state the assertions of
\* remove_entry hold for the erase of every stored fingerprint, and the
\* assertions of increment and find_next_run_quotient hold for every
\* iterator that points to a stored fingerprint (the first size()
\* iterators from begin()).
AssertionsHold ==
  Alive =>
    /\ \A fp \in ref :
         remove_entry_asserts(filter, find(filter, fp).pos,
                              find(filter, fp).canonical_pos)
    /\ \A n \in 0..(size(filter) - 1) :
         increment_asserts(filter, advance(filter, begin(filter), n))

\* An erase has left a run of two and a shifted run head behind it: the
\* erase of the run's first element pulls that head one slot left, not out
\* of its own slot, and the traversal steps onto it.
AssertionsHoldWitness ==
  /\ last.op = "erase"
  /\ last.ret = "1"
  /\ \E fp \in ref :
       /\ filter.is_continuation[incr_pos(filter, find(filter, fp).pos)]
       /\ filter.is_shifted[incr_pos(filter,
                                     incr_pos(filter, find(filter, fp).pos))]
       /\ ~filter.is_continuation[incr_pos(filter,
                                           incr_pos(filter, find(filter, fp).pos))]
       /\ ~is_empty_slot(erase(filter, fp).filter,
                         incr_pos(filter, find(filter, fp).pos))
       /\ ~erase(filter, fp).filter.is_continuation[
              incr_pos(filter, find(filter, fp).pos)]

\* ---------------------------------- quotient_filter.cpp: find_run, contains

(***************************************************************************)
(* The older engine file keeps the three flags of slot pos in one vector,  *)
(* at 3 pos, 3 pos + 1 and 3 pos + 2; here they are read from the three    *)
(* vectors of the engine.  next_pos and prev_pos are incr_pos and          *)
(* decr_pos.                                                               *)
(***************************************************************************)
quotient_part(f, fp) == AndMask(fp \div Pow2(f.r_bits), f.quotient_mask)
remainder_part(f, fp) == AndMask(fp, f.remainder_mask)

\* find_run, first loop: walk left to the beginning of the cluster, adding
\* the is_ocuppied flag of every slot stepped on.
\* on an engine that has a slot that is not shifted.
RECURSIVE to_cluster_start(_, _, _)
to_cluster_start(f, pos, running_count) ==
  LET p == decr_pos(f, pos)
      c == running_count + (IF f.is_occupied[p] THEN 1 ELSE 0)
  IN IF f.is_shifted[p] THEN to_cluster_start(f, p, c)
     ELSE [pos |-> p, running_count |-> c, ret |-> "none"]

\* find_run, first loop. Where every slot is shifted the loop never ends.
count_to_cluster_start(f, pos, running_count) ==
  IF \A p \in DOMAIN f.is_shifted : f.is_shifted[p]
  THEN [pos |-> pos, running_count |-> running_count, ret |-> "no_return"]
  ELSE to_cluster_start(f, pos, running_count)

\* find_run, inner loop: do pos = next_pos(pos) while (!is_continuation),
\* on an engine that has a continuation slot.
RECURSIVE next_continuation(_, _)
next_continuation(f, pos) ==
  IF f.is_continuation[incr_pos(f, pos)] THEN incr_pos(f, pos)
  ELSE next_continuation(f, incr_pos(f, pos))

\* find_run, inner loop. Where no slot is a continuation the loop never
\* ends: the call does not return.
advance_to_next_run(f, pos) ==
  IF \A p \in DOMAIN f.is_continuation : ~f.is_continuation[p]
  THEN [pos |-> pos, ret |-> "no_return"]
  ELSE [pos |-> next_continuation(f, pos), ret |-> "none"]

\* find_run, second loop: for (; running_count; --running_count).
RECURSIVE advance_runs(_, _, _)
advance_runs(f, pos, running_count) ==
  IF running_count = 0 THEN [pos |-> pos, ret |-> "none"]
  ELSE IF advance_to_next_run(f, pos).ret # "none"
  THEN advance_to_next_run(f, pos)
  ELSE advance_runs(f, advance_to_next_run(f, pos).pos, running_count - 1)

\* find_run(quotient): the slot returned, or no return.
find_run(f, quotient) ==
  IF ~f.is_shifted[quotient] THEN [pos |-> quotient, ret |-> "none"]
  ELSE IF count_to_cluster_start(f, quotient, 0).ret # "none"
  THEN [pos |-> quotient, ret |-> "no_return"]
  ELSE advance_runs(f, count_to_cluster_start(f, quotient, 0).pos,
                    count_to_cluster_start(f, quotient, 0).running_count)

\* contains, the search on the run: "true", "false", or "fuel" where the
\* loop has not ended after fuel + 1 slots.
RECURSIVE contains_in_run_within(_, _, _, _)
contains_in_run_within(f, pos, fp_remainder, fuel) ==
  LET remainder == get_remainder(f, pos)
      p == incr_pos(f, pos)
  IN IF remainder = fp_remainder THEN "true"
     ELSE IF remainder > fp_remainder THEN "false"
     ELSE IF ~f.is_continuation[p] THEN "false"
     ELSE IF fuel = 0 THEN "fuel"
     ELSE contains_in_run_within(f, p, fp_remainder, fuel - 1)

\* contains, the search on the run. A loop that has gone through every
\* slot without an exit goes through them again: the call does not return.
contains_in_run(f, pos, fp_remainder) ==
  IF contains_in_run_within(f, pos, fp_remainder, f.num_slots) = "fuel"
  THEN "no_return"
  ELSE contains_in_run_within(f, pos, fp_remainder, f.num_slots)

\* contains(fp): "true", "false" or "no_return".
contains(f, fp) ==
  IF ~f.is_occupied[quotient_part(f, fp)] THEN "false"
  ELSE IF find_run(f, quotient_part(f, fp)).ret # "none" THEN "no_return"
  ELSE contains_in_run(f, find_run(f, quotient_part(f, fp)).pos,
                       remainder_part(f, fp))

\* C39 (find_run): in every reachable engine state find_run gives, for
\* every occupied quotient, the slot find_run_start gives, and contains(fp)
\* is true exactly for the stored fingerprints.
FindRunIsFindRunStart ==
  (Alive /\ filter.num_slots > 0) =>
    /\ \A i \in occupied_quotients(filter) :
         find_run(filter, i)
           = [pos |-> find_run_start(filter, i), ret |-> "none"]
    /\ \A fp \in Fingerprints(filter) :
         contains(filter, fp) = Bool(fp \in ref)

\* ---------------------------------- SpecRS: the storage of the remainders

\* The slots about the first block boundary.
StoragePositions(f) ==
  {pos \in DOMAIN f.is_occupied :
     pos \in {bits_per_block \div f.r_bits - 1, bits_per_block \div f.r_bits,
              bits_per_block \div f.r_bits + 1}}

RSInit ==
  /\ filter \in {new_filter(StorageQ, r) : r \in 2..StorageMaxR}
  /\ max_load_factor_ = default_max_load_factor
  /\ hash_fn = <<>>
  /\ ref = {}
  /\ kept = {}
  /\ history = "any"
  /\ last = Call("new", "none", FALSE, FALSE)

\* set_remainder(pos, value), value < 2^r_bits.
RSSetRemainder(pos, value) ==
  /\ filter' = [filter EXCEPT !.data = set_remainder(filter, pos, value)]
  /\ last' = Call("set_remainder", "none", FALSE, FALSE)
  /\ UNCHANGED <<max_load_factor_, hash_fn, ref, kept, history>>

RSNext ==
  \E pos \in StoragePositions(filter), value \in 0..filter.remainder_mask :
     RSSetRemainder(pos, value)

SpecRS == RSInit /\ [][RSNext]_vars

\* The remainder of every slot.
remainders(f) == [pos \in DOMAIN f.is_occupied |-> get_remainder(f, pos)]

\* C40 (remainder storage): for every slot and every value of r bits, the
\* blocks read and written are allocated blocks, of which there are
\* ceil(r 2^q / bits_per_block), and after set_remainder(pos, value)
\* get_remainder gives value for pos and what it gave before for every
\* other slot.
RemainderRoundTrip ==
  /\ DOMAIN filter.data
       = 0..(ceil_div(filter.r_bits * filter.num_slots, bits_per_block) - 1)
  /\ \A pos \in DOMAIN filter.is_occupied :
       /\ blocks_of(filter, pos) \subseteq DOMAIN filter.data
       /\ \A value \in 0..filter.remainder_mask :
            remainders([filter EXCEPT
                          !.data = set_remainder(filter, pos, value)])
              = [remainders(filter) EXCEPT ![pos] = value]

\* Slot 21 of 32 slots of 3 bits holds 5, one bit in the last bit of block
\* 0 and one in block 1, between two slots that hold 7 and 2.
RemainderRoundTripWitness ==
  /\ last.op = "set_remainder"
  /\ filter.r_bits = 3
  /\ blocks_of(filter, 21) = {0, 1}
  /\ get_remainder(filter, 20) = 7
  /\ get_remainder(filter, 21) = 5
  /\ get_remainder(filter, 22) = 2
  /\ 63 \in filter.data[0]
  /\ 1 \in filter.data[1]

====
